---- MODULE Spec2Model ----
(***************************************************************************)
(* State-machine model of the useVocals hook (src/unnamed/part_002):       *)
(* the playback scheduler (audio queue, playNextSegment, pause/stop/fade/  *)
(* clear), the WebSocket connection controller (connect, disconnect,       *)
(* reconnect timers, transport events) and the TokenManager it awaits.     *)
(*                                                                         *)
(* React state (useState) is modelled by the value the next render will    *)
(* show; the values a closure or a ref captured at the last render are     *)
(* separate variables that the Render action brings up to date.            *)
(***************************************************************************)
EXTENDS Integers, Sequences, FiniteSets, TLC

(* ------------------------------ bounds -------------------------------- *)
\* asynchronous work of the playback scheduler in flight at one time: pending
\* timers, decodes, resumes and started sources
MaxPending == 2
\* fadeOutAudio timers pending at one time
MaxFades == 2
\* connection attempts in flight at one time: connect() calls awaiting their
\* token, WebSocket objects, armed reconnect timers
MaxSockets == 2
\* number of connection-state notifications recorded for the observers
MaxObserved == 12
\* handlers that run on the values of the last render before React commits the
\* render their state updates asked for, in the scenarios that limit it
MaxRenderLag == 3
\* startRecording calls at an await and live audio processors at one time
MaxRecordings == 2
\* events recorded as put on the transport since the last start event
MaxOutbound == 4
\* messages the conversation list may hold before the model stops adding
MaxListed == 3
\* the largest maxMessages a scenario configures
MaxConfigured == 2
\* fetchToken calls of useVocalsToken suspended at one time
MaxTokenCalls == 3

(* ------------------------- program constants -------------------------- *)
\* DEFAULT_CONFIG.maxReconnectAttempts
maxReconnectAttempts == 3
\* the default of config.maxMessages in useVocalsConversation
DefaultMaxMessages == 100

(* ------------------------------ values -------------------------------- *)
\* TTSAudioSegment: the identity key is (segment_id, sentence_number);
\* audio stands for audio_data: "ok" decodes, "bad" makes decodeAudioData reject.
SegA == [segment_id |-> 1, sentence_number |-> 0, audio |-> "ok"]
SegB == [segment_id |-> 1, sentence_number |-> 0, audio |-> "bad"]
SegC == [segment_id |-> 2, sentence_number |-> 0, audio |-> "ok"]
SegD == [segment_id |-> 1, sentence_number |-> 1, audio |-> "ok"]
\* currentSegment === null
NoSegment == [segment_id |-> 0, sentence_number |-> 0, audio |-> "none"]

InterruptionReasons == {"new_speech_segment", "speech_segment_merged", "other"}

\* a playNextSegment call awaiting its decode: whether the audio decodes, and
\* whether disconnect has closed the AudioContext the call holds
DecodeKinds == [audio : {"ok", "bad"}, closed : BOOLEAN]

VARIABLES
  \* --- playback: React state
  audioQueue,                  \* useState audioQueue
  currentSegment,              \* useState currentSegment
  playbackState,               \* useState playbackState
  error,                       \* useState error (its code, "none" for null)
  \* --- playback: what the last render published
  audioQueueRef,               \* audioQueueRef.current (synced in useEffect)
  renderedPlaybackState,       \* playbackState captured by the latest playAudio closure
  renderedConnectionState,     \* connectionState captured by the latest startRecording
                               \* closure
  renderLag,                   \* handlers run since the state left what was rendered
  \* --- playback: refs
  isPlayingRef,
  isFadingOutRef,
  currentAudioBufferSourceRef, \* "null"; "playing": a started node that has not
                               \* ended; "dead": a node of a closed AudioContext
  currentGainNodeRef,          \* "null" or "node"
  playbackAudioContextRef,     \* "null", "running" or "suspended"
  \* --- playback: asynchronous work in flight
  decoding,                    \* playNextSegment calls awaiting the decode, by kind
  resuming,                    \* playAudio calls awaiting audioContext.resume(), by
                               \* whether disconnect has closed the context since
  pnsResuming,                 \* playNextSegment calls awaiting audioContext.resume(),
                               \* by the kind of the decode they go on to
  orphanSources,               \* started, not ended nodes that no ref points to
  endedOwed,                   \* stopped nodes whose ended event is still to come
  autoPlayTimers,              \* pending setTimeout(.., 10) of the tts_audio handlers
  endedTimers,                 \* pending setTimeout(.., 10) of source.onended
  errorTimers,                 \* pending setTimeout(.., 100) of the playNextSegment catch
  fadeTimers,                  \* pending setTimeout(.., duration) of fadeOutAudio
  fadePending,                 \* fadeOutAudio promises not yet resolved
  \* --- connection
  connectionState,             \* useState connectionState
  wsRef,                       \* id of wsRef.current, 0 for null
  sockets,                     \* WebSocket objects that still have events to deliver
  reconnectAttemptsRef,
  reconnectTimeoutRef,         \* id of the timer in reconnectTimeoutRef.current, 0 for null
  reconnectTimers,             \* reconnect timers armed and not fired or cleared
  pendingConnects,             \* connect() calls suspended at await getToken()
  tmToken,                     \* TokenManager.token by age: "null"; "fresh": now is
                               \* before expiresAt - refreshBuffer; "stale": before
                               \* expiresAt; "expired"
  tmFetches,                   \* requests to the token endpoint not yet answered
  tmRefresh,                   \* TokenManager.refreshPromise: "null", "pending", "rejected"
  observing,                   \* a connection-state observer is registered
  throwingHandler,             \* a connection-state observer that throws: "none", or
                               \* registered "first" or "last" of the two
  observed,                    \* states the connection-state observers were called with
  connTrace,                   \* the state before the last connection handler, then
                               \* each state that handler set
  handshakeFailures,           \* transports the observers' session saw fail before opening
  disconnectCalled,            \* disconnect() was called and connect() not since
  \* --- recording
  recordingState,              \* useState recordingState
  currentAmplitude,            \* useState currentAmplitude
  isListeningRef,              \* the listening gate
  processorRef,                \* processorRef.current is set
  liveProcessors,              \* audio processors created and not cleaned up
  recPending,                  \* startRecording calls suspended at an await, by await
  outbound,                    \* events put on the transport since the last start event
  \* --- token route (server side)
  apiKeyEnv,                   \* process.env.VOCALS_DEV_API_KEY
  routeResponse,               \* the response the token route handler sent last
  tmResponses,                 \* the responses to the token manager's requests that
                               \* are on their way to its fetch
  \* --- conversation (useVocalsConversation)
  messages,                    \* useState messages
  maxMessages,                 \* config.maxMessages
  autoPlayAudio,               \* config.autoPlayAudio of useVocalsConversation
  lastLlmId,                   \* the id `llm_${Date.now()}` gave last, which it gives
                               \* again until the clock moves; "none" before the first
  \* --- token hook (useVocalsToken)
  tkState,                     \* useState token, isLoading, error
  tkCalls,                     \* fetchToken calls suspended at await getToken(), by
                               \* what they wait for
  \* --- bookkeeping
  segmentPool,                 \* the segments the server and the caller may hand in
  trackedOps,                  \* the handlers whose runs lastOp tells apart
  renderLagBound,              \* handlers that may run before a due render, 0: any number
  pendingBound,                \* asynchronous work of the scheduler the scenario lets
                               \* be in flight at one time
  lastOp                       \* the tracked handler that ran last, else "other"

playVars == <<audioQueue, currentSegment, playbackState, error, audioQueueRef,
              renderedPlaybackState, renderedConnectionState, renderLag, isPlayingRef, isFadingOutRef,
              currentAudioBufferSourceRef, currentGainNodeRef, playbackAudioContextRef,
              decoding, resuming, pnsResuming, orphanSources, endedOwed, autoPlayTimers, endedTimers,
              errorTimers, fadeTimers, fadePending>>
connVars == <<connectionState, wsRef, sockets, reconnectAttemptsRef,
              reconnectTimeoutRef, reconnectTimers, pendingConnects, tmToken, tmRefresh,
              tmFetches, observing, throwingHandler, observed, connTrace,
              handshakeFailures, disconnectCalled>>
recVars == <<recordingState, currentAmplitude, isListeningRef, processorRef,
             liveProcessors, recPending, outbound>>
\* what a scenario fixes for the whole run
scenario == <<segmentPool, trackedOps, renderLagBound, pendingBound>>
routeVars == <<apiKeyEnv, routeResponse, tmResponses>>
convVars == <<messages, maxMessages, autoPlayAudio, lastLlmId>>
tokenHookVars == <<tkState, tkCalls>>
vars == <<playVars, connVars, recVars, routeVars, convVars, tokenHookVars, scenario,
          lastOp>>

(* ======================= playback scheduler ============================ *)

\* lastOp after handler op: its name when the scenario tracks it
Label(op) == IF op \in trackedOps THEN op ELSE "other"
\* the same for a handler run that has two names
LabelFirst(op1, op2) == IF op1 \in trackedOps THEN op1 ELSE Label(op2)

\* a duplicate test that forgets the segment_id
IsDuplicateBySentence(prev, segment) ==
  \E i \in 1..Len(prev) : prev[i].sentence_number = segment.sentence_number

\* addToQueue: prev.some(existing => same segment_id and same sentence_number)
IsDuplicate(prev, segment) ==
  \E i \in 1..Len(prev) :
     /\ prev[i].segment_id = segment.segment_id
     /\ prev[i].sentence_number = segment.sentence_number

\* addToQueue: the updater handed to setAudioQueue
AddToQueueUpdater(prev, segment) ==
  IF IsDuplicate(prev, segment) THEN prev ELSE Append(prev, segment)

\* Array.prototype.slice(1)
Slice1(q) == IF q = <<>> THEN <<>> ELSE Tail(q)

\* currentAudioBufferSourceRef.current.stop(): a playing node stops and owes its
\* ended event
OwedAfterStop ==
  IF currentAudioBufferSourceRef = "playing" THEN endedOwed + 1 ELSE endedOwed

\* audio source nodes that have started and have not ended
LiveSources ==
  orphanSources + (IF currentAudioBufferSourceRef = "playing" THEN 1 ELSE 0)

DecodingCount ==
  decoding[[audio |-> "ok", closed |-> FALSE]] + decoding[[audio |-> "ok", closed |-> TRUE]]
  + decoding[[audio |-> "bad", closed |-> FALSE]] + decoding[[audio |-> "bad", closed |-> TRUE]]

ResumingCount == resuming[FALSE] + resuming[TRUE]

PnsResumingCount ==
  pnsResuming[[audio |-> "ok", closed |-> FALSE]] + pnsResuming[[audio |-> "ok", closed |-> TRUE]]
  + pnsResuming[[audio |-> "bad", closed |-> FALSE]] + pnsResuming[[audio |-> "bad", closed |-> TRUE]]

\* asynchronous work of the scheduler in flight
Pending ==
  DecodingCount + LiveSources + endedOwed + ResumingCount + PnsResumingCount
  + autoPlayTimers + endedTimers
  + errorTimers + Cardinality(fadeTimers)

\* some WebSocket of this session is open and can deliver a message
SomeSocketOpen == \E s \in sockets : s.st = "open"

renderVars == <<audioQueueRef, renderedPlaybackState, renderedConnectionState>>
sourceVars == <<currentAudioBufferSourceRef, currentGainNodeRef, orphanSources, endedOwed>>
timerVars == <<autoPlayTimers, endedTimers, errorTimers>>
fadeVars == <<fadeTimers, fadePending>>

\* the variables playNextSegment writes before its first await
pnsVars == <<audioQueue, currentSegment, playbackState, isPlayingRef,
             playbackAudioContextRef, decoding, pnsResuming>>

\* playNextSegment past its two early returns, up to its first await: the head of
\* the queue snapshot becomes current and the queue loses its first element; on a
\* suspended context the call awaits audioContext.resume(), otherwise (a new
\* context or a running one) the decode begins
StartNextSegment ==
  /\ isPlayingRef' = TRUE
  /\ playbackState' = "playing"
  /\ audioQueue' = Slice1(audioQueue)
  /\ currentSegment' = Head(audioQueueRef)
  /\ IF playbackAudioContextRef = "suspended"
     THEN /\ pnsResuming' = [pnsResuming EXCEPT
                 ![[audio |-> Head(audioQueueRef).audio, closed |-> FALSE]] = @ + 1]
          /\ UNCHANGED <<playbackAudioContextRef, decoding>>
     ELSE /\ playbackAudioContextRef' = "running"
          /\ decoding' = [decoding EXCEPT
                 ![[audio |-> Head(audioQueueRef).audio, closed |-> FALSE]] = @ + 1]
          /\ UNCHANGED pnsResuming

\* playNextSegment, up to the await of the decode
PlayNextSegment ==
  IF isPlayingRef \/ isFadingOutRef
  THEN UNCHANGED pnsVars
  ELSE IF Len(audioQueueRef) = 0
  THEN /\ playbackState' = "idle"
       /\ currentSegment' = NoSegment
       /\ isPlayingRef' = FALSE
       /\ UNCHANGED <<audioQueue, playbackAudioContextRef, decoding, pnsResuming>>
  ELSE StartNextSegment

\* a playAudio that tests only the fading flag and starts the next segment itself
PlayAudioBodyUnguarded(ps) ==
  IF isFadingOutRef
  THEN UNCHANGED <<pnsVars, resuming>>
  ELSE IF ps = "paused"
  THEN IF playbackAudioContextRef = "suspended"
       THEN /\ resuming' = [resuming EXCEPT ![FALSE] = @ + 1]
            /\ UNCHANGED pnsVars
       ELSE UNCHANGED <<pnsVars, resuming>>
  ELSE IF Len(audioQueueRef) > 0
  THEN StartNextSegment /\ UNCHANGED resuming
  ELSE UNCHANGED <<pnsVars, resuming>>

\* playAudio, with ps the playbackState its closure captured
PlayAudioBody(ps) ==
  IF isPlayingRef \/ isFadingOutRef
  THEN UNCHANGED <<pnsVars, resuming>>
  ELSE IF ps = "paused"
  THEN IF playbackAudioContextRef = "suspended"
       THEN /\ resuming' = [resuming EXCEPT ![FALSE] = @ + 1]
            /\ UNCHANGED pnsVars
       ELSE UNCHANGED <<pnsVars, resuming>>
  ELSE IF Len(audioQueueRef) > 0
  THEN PlayNextSegment /\ UNCHANGED resuming
  ELSE UNCHANGED <<pnsVars, resuming>>

\* clearQueue
ClearQueueBody ==
  /\ audioQueue' = <<>>
  /\ currentSegment' = NoSegment
  /\ endedOwed' = OwedAfterStop
  /\ currentAudioBufferSourceRef' = "null"
  /\ currentGainNodeRef' = "null"
  /\ playbackState' = "idle"
  /\ isPlayingRef' = FALSE
  /\ isFadingOutRef' = FALSE

\* what clearQueue writes
clearVars == <<audioQueue, currentSegment, endedOwed, currentAudioBufferSourceRef,
               currentGainNodeRef, playbackState, isPlayingRef, isFadingOutRef>>

\* fadeOutAudio resolves at once: no gain node, no context, or a fade in progress
FadeResolvesAtOnce ==
  \/ currentGainNodeRef = "null"
  \/ playbackAudioContextRef = "null"
  \/ isFadingOutRef

\* the id of the next fadeOutAudio promise
FreeFadeId == CHOOSE i \in 1..(MaxFades + 1) : i \notin fadePending

\* fadeOutAudio(duration); thenClear: the caller chained .then(clearQueue)
FadeOutAudioBody(thenClear) ==
  IF FadeResolvesAtOnce
  THEN /\ UNCHANGED fadeVars
       /\ IF thenClear THEN ClearQueueBody ELSE UNCHANGED clearVars
  ELSE /\ isFadingOutRef' = TRUE
       /\ fadeTimers' = fadeTimers \cup {[id |-> FreeFadeId, thenClear |-> thenClear]}
       /\ fadePending' = fadePending \cup {FreeFadeId}
       /\ UNCHANGED <<audioQueue, currentSegment, endedOwed, currentAudioBufferSourceRef,
                      currentGainNodeRef, playbackState, isPlayingRef>>

(* ---- handlers of the playback scheduler ---- *)

\* a handler has run: it counts as one more run on stale values unless the state
\* is again what the last render published
RenderLagged ==
  /\ renderLagBound = 0 \/ renderLag < renderLagBound
  /\ renderLag' = IF \/ renderLagBound = 0
                     \/ (audioQueue' = audioQueueRef' /\ playbackState' = renderedPlaybackState')
                  THEN 0 ELSE renderLag + 1

\* the useEffect that copies audioQueue into audioQueueRef, and the re-creation of
\* playAudio with the rendered playbackState and of startRecording with the
\* rendered connectionState
Render ==
  /\ UNCHANGED <<scenario, routeVars, convVars, tokenHookVars>>
  /\ \/ audioQueueRef # audioQueue
     \/ renderedPlaybackState # playbackState
     \/ renderedConnectionState # connectionState
  /\ audioQueueRef' = audioQueue
  /\ renderedPlaybackState' = playbackState
  /\ renderedConnectionState' = connectionState
  /\ renderLag' = 0
  /\ lastOp' = Label("render")
  /\ UNCHANGED <<audioQueue, currentSegment, playbackState, error, isPlayingRef,
                 isFadingOutRef, playbackAudioContextRef, decoding, resuming, pnsResuming>>
  /\ UNCHANGED <<sourceVars, timerVars, fadeVars, connVars, recVars>>

\* addToQueue(segment) called through the hook's return value
AddToQueue(segment) ==
  /\ UNCHANGED <<scenario, routeVars, convVars, tokenHookVars>>
  /\ audioQueue' = AddToQueueUpdater(audioQueue, segment)
  /\ lastOp' = Label(IF IsDuplicate(audioQueue, segment) THEN "addToQueueDuplicate"
                     ELSE "addToQueue")
  /\ UNCHANGED <<currentSegment, playbackState, error, isPlayingRef, isFadingOutRef,
                 playbackAudioContextRef, decoding, resuming, pnsResuming>>
  /\ UNCHANGED <<renderVars, sourceVars, timerVars, fadeVars, connVars, recVars>>
  /\ RenderLagged

\* the setTimeout(.., 10) calls of a tts_audio message: one by ws.onmessage when
\* nothing is playing, one by handleMessage of useVocalsConversation when
\* autoPlayAudio is set and the playbackState it rendered is idle
AutoPlayTimersArmed ==
  (IF ~isPlayingRef THEN 1 ELSE 0)
  + (IF autoPlayAudio /\ renderedPlaybackState = "idle" THEN 1 ELSE 0)

\* ws.onmessage for a tts_audio message, with the message handler that
\* useVocalsConversation registered: its addToQueue of the same segment is a
\* duplicate and changes nothing
TtsAudio(segment) ==
  /\ UNCHANGED <<scenario, routeVars, convVars, tokenHookVars>>
  /\ SomeSocketOpen
  /\ AutoPlayTimersArmed > 0 => Pending + AutoPlayTimersArmed <= pendingBound
  /\ audioQueue' = AddToQueueUpdater(AddToQueueUpdater(audioQueue, segment), segment)
  /\ autoPlayTimers' = autoPlayTimers + AutoPlayTimersArmed
  /\ lastOp' = Label(IF IsDuplicate(audioQueue, segment) THEN "tts_audioDuplicate"
                     ELSE "tts_audio")
  /\ UNCHANGED <<currentSegment, playbackState, error, isPlayingRef, isFadingOutRef,
                 playbackAudioContextRef, decoding, resuming, pnsResuming, endedTimers,
                 errorTimers>>
  /\ UNCHANGED <<renderVars, sourceVars, fadeVars, connVars, recVars>>
  /\ RenderLagged

\* the setTimeout(.., 10) callback of the tts_audio handler; its playAudio is the
\* one connect captured at the first render, where playbackState was "idle". The
\* callback of the timer of useVocalsConversation does the same: the playbackState
\* and the playAudio it captured are those of a render that showed "idle", and
\* playAudio makes the two tests itself
AutoPlayTimer ==
  /\ UNCHANGED <<scenario, routeVars, convVars, tokenHookVars>>
  /\ autoPlayTimers > 0
  /\ autoPlayTimers' = autoPlayTimers - 1
  /\ IF ~isPlayingRef /\ Len(audioQueueRef) > 0
     THEN PlayAudioBody("idle")
     ELSE UNCHANGED <<pnsVars, resuming>>
  /\ lastOp' = Label("autoPlayTimer")
  /\ UNCHANGED <<error, isFadingOutRef, endedTimers, errorTimers>>
  /\ UNCHANGED <<renderVars, sourceVars, fadeVars, connVars, recVars>>
  /\ RenderLagged

\* playAudio() called through the hook's return value
PlayAudio ==
  /\ UNCHANGED <<scenario, routeVars, convVars, tokenHookVars>>
  /\ (~isPlayingRef /\ ~isFadingOutRef) => Pending < pendingBound
  /\ PlayAudioBody(renderedPlaybackState)
  /\ lastOp' = Label(IF isPlayingRef THEN "playAudioWhilePlaying" ELSE "playAudio")
  /\ UNCHANGED <<error, isFadingOutRef>>
  /\ UNCHANGED <<renderVars, sourceVars, timerVars, fadeVars, connVars, recVars>>
  /\ RenderLagged

\* playAudio after its own await of playbackAudioContextRef.current.resume():
\* the context runs, and the state and the playing flag are set. disconnect does
\* not cancel the call: on a context it has closed meanwhile the promise may
\* still resolve, and the two assignments run with no context behind them, or be
\* rejected, which ends playAudio with nothing changed
ResumeDone ==
  /\ UNCHANGED <<scenario, routeVars, convVars, tokenHookVars>>
  /\ \E closed \in BOOLEAN :
       /\ resuming[closed] > 0
       /\ resuming' = [resuming EXCEPT ![closed] = @ - 1]
       /\ \/ /\ playbackAudioContextRef' =
                  IF closed THEN playbackAudioContextRef ELSE "running"
             /\ playbackState' = "playing"
             /\ isPlayingRef' = TRUE
             /\ lastOp' = Label("resumeDone")
          \/ /\ closed
             /\ UNCHANGED <<playbackAudioContextRef, playbackState, isPlayingRef>>
             /\ lastOp' = Label("resumeRejected")
  /\ UNCHANGED <<audioQueue, currentSegment, error, isFadingOutRef, decoding,
                 pnsResuming>>
  /\ UNCHANGED <<renderVars, sourceVars, timerVars, fadeVars, connVars, recVars>>
  /\ RenderLagged

\* playNextSegment after its await of audioContext.resume(): the context runs and
\* the decode begins. On a context that disconnect has closed meanwhile the
\* promise may be rejected instead, and the catch of playNextSegment runs
PnsResumeDone ==
  /\ UNCHANGED <<scenario, routeVars, convVars, tokenHookVars>>
  /\ \E d \in DecodeKinds :
       /\ pnsResuming[d] > 0
       /\ pnsResuming' = [pnsResuming EXCEPT ![d] = @ - 1]
       /\ \/ /\ decoding' = [decoding EXCEPT ![d] = @ + 1]
             /\ playbackAudioContextRef' =
                  IF d.closed THEN playbackAudioContextRef ELSE "running"
             /\ lastOp' = Label("pnsResumeDone")
             /\ UNCHANGED <<error, playbackState, isPlayingRef, errorTimers>>
          \/ /\ d.closed
             /\ error' = "PLAYBACK_FAILED"
             /\ playbackState' = "error"
             /\ isPlayingRef' = FALSE
             /\ errorTimers' = errorTimers + 1
             /\ lastOp' = Label("pnsResumeFailed")
             /\ UNCHANGED <<decoding, playbackAudioContextRef>>
  /\ UNCHANGED <<audioQueue, currentSegment, isFadingOutRef, resuming, orphanSources,
                 endedOwed, currentAudioBufferSourceRef, currentGainNodeRef,
                 autoPlayTimers, endedTimers>>
  /\ UNCHANGED <<renderVars, fadeVars, connVars, recVars>>
  /\ RenderLagged

\* pauseAudio
PauseAudio ==
  /\ UNCHANGED <<scenario, routeVars, convVars, tokenHookVars>>
  /\ IF playbackAudioContextRef # "null" /\ isPlayingRef
     THEN /\ playbackAudioContextRef' = "suspended"
          /\ playbackState' = "paused"
          /\ isPlayingRef' = FALSE
     ELSE UNCHANGED <<playbackAudioContextRef, playbackState, isPlayingRef>>
  /\ lastOp' = Label("pauseAudio")
  /\ UNCHANGED <<audioQueue, currentSegment, error, isFadingOutRef, decoding, resuming, pnsResuming>>
  /\ UNCHANGED <<renderVars, sourceVars, timerVars, fadeVars, connVars, recVars>>
  /\ RenderLagged

\* a stopAudio that leaves the fading flag as it is
StopAudioBodyKeepsFading ==
  /\ endedOwed' = OwedAfterStop
  /\ currentAudioBufferSourceRef' = "null"
  /\ currentGainNodeRef' = "null"
  /\ playbackState' = "idle"
  /\ currentSegment' = NoSegment
  /\ isPlayingRef' = FALSE
  /\ isFadingOutRef' = isFadingOutRef

\* stopAudio: what it writes
StopAudioBody ==
  /\ endedOwed' = OwedAfterStop
  /\ currentAudioBufferSourceRef' = "null"
  /\ currentGainNodeRef' = "null"
  /\ playbackState' = "idle"
  /\ currentSegment' = NoSegment
  /\ isPlayingRef' = FALSE
  /\ isFadingOutRef' = FALSE

\* stopAudio() called through the hook's return value
StopAudio ==
  /\ UNCHANGED <<scenario, routeVars, convVars, tokenHookVars>>
  /\ StopAudioBody
  /\ lastOp' = Label("stopAudio")
  /\ UNCHANGED <<audioQueue, error, playbackAudioContextRef, decoding, resuming, pnsResuming,
                 orphanSources>>
  /\ UNCHANGED <<renderVars, timerVars, fadeVars, connVars, recVars>>
  /\ RenderLagged

\* clearQueue() called through the hook's return value
ClearQueue ==
  /\ UNCHANGED <<scenario, routeVars, convVars, tokenHookVars>>
  /\ ClearQueueBody
  /\ lastOp' = Label("clearQueue")
  /\ UNCHANGED <<error, playbackAudioContextRef, decoding, resuming, pnsResuming, orphanSources>>
  /\ UNCHANGED <<renderVars, timerVars, fadeVars, connVars, recVars>>
  /\ RenderLagged

\* fadeOutAudio(duration) called through the hook's return value
FadeOutAudio ==
  /\ UNCHANGED <<scenario, routeVars, convVars, tokenHookVars>>
  /\ ~FadeResolvesAtOnce => (Pending < pendingBound /\ Cardinality(fadePending) < MaxFades)
  /\ FadeOutAudioBody(FALSE)
  /\ lastOp' = Label(IF FadeResolvesAtOnce THEN "fadeOutAudioResolved" ELSE "fadeOutAudio")
  /\ UNCHANGED <<error, playbackAudioContextRef, decoding, resuming, pnsResuming, orphanSources>>
  /\ UNCHANGED <<renderVars, timerVars, connVars, recVars>>
  /\ RenderLagged

\* ws.onmessage for a speech_interruption message:
\* fadeOutAudio(300).then(() => clearQueue()) for the two reasons that interrupt
SpeechInterruption(reason) ==
  /\ UNCHANGED <<scenario, routeVars, convVars, tokenHookVars>>
  /\ SomeSocketOpen
  /\ IF reason = "new_speech_segment" \/ reason = "speech_segment_merged"
     THEN /\ ~FadeResolvesAtOnce =>
               (Pending < pendingBound /\ Cardinality(fadePending) < MaxFades)
          /\ FadeOutAudioBody(TRUE)
          /\ lastOp' = Label(IF FadeResolvesAtOnce THEN "interruptionCleared"
                             ELSE "interruptionFading")
     ELSE /\ UNCHANGED <<clearVars, fadeVars>>
          /\ lastOp' = Label("interruptionIgnored")
  /\ UNCHANGED <<error, playbackAudioContextRef, decoding, resuming, pnsResuming, orphanSources>>
  /\ UNCHANGED <<renderVars, timerVars, connVars, recVars>>
  /\ RenderLagged

\* the cleanup in the setTimeout callback of fadeOutAudio
FadeCleanup ==
  /\ endedOwed' = OwedAfterStop
  /\ currentAudioBufferSourceRef' = "null"
  /\ currentGainNodeRef' = "null"
  /\ playbackState' = "idle"
  /\ currentSegment' = NoSegment
  /\ isPlayingRef' = FALSE
  /\ isFadingOutRef' = FALSE

\* a fade timer callback without its try/catch: with the nodes already released
\* the cleanup throws and resolve() is never reached
FadeTimerFiredThrows(t) ==
  IF currentGainNodeRef = "null"
  THEN /\ fadeTimers' = fadeTimers \ {t}
       /\ lastOp' = Label("fadeTimer")
       /\ UNCHANGED <<fadePending, clearVars>>
  ELSE /\ fadeTimers' = fadeTimers \ {t}
       /\ fadePending' = fadePending \ {t.id}
       /\ IF t.thenClear
          THEN ClearQueueBody
          ELSE FadeCleanup /\ UNCHANGED audioQueue
       /\ lastOp' = Label("fadeTimer")

\* the setTimeout callback of fadeOutAudio: cleanup, resolve(), and then the
\* caller's .then(clearQueue) when there is one, which repeats the cleanup and
\* empties the queue
FadeTimerFired(t) ==
  /\ fadeTimers' = fadeTimers \ {t}
  /\ fadePending' = fadePending \ {t.id}
  /\ IF t.thenClear
     THEN ClearQueueBody
     ELSE FadeCleanup /\ UNCHANGED audioQueue
  /\ lastOp' = LabelFirst(IF currentGainNodeRef = "null" THEN "fadeTimerAfterRelease"
                          ELSE "fadeTimer",
                          IF t.thenClear THEN "fadeTimerCleared" ELSE "fadeTimer")

\* the callback of fade timer t runs
FadeTimerOf(t) ==
  /\ UNCHANGED <<scenario, routeVars, convVars, tokenHookVars>>
  /\ t \in fadeTimers
  /\ FadeTimerFired(t)
  /\ UNCHANGED <<error, playbackAudioContextRef, decoding, resuming, pnsResuming, orphanSources>>
  /\ UNCHANGED <<renderVars, timerVars, connVars, recVars>>
  /\ RenderLagged

\* the fade timers there can be
FadeTimerIds == [id : 1..(MaxFades + 1), thenClear : BOOLEAN]

FadeTimer == \E t \in FadeTimerIds : FadeTimerOf(t)

\* playNextSegment after the await of the decode: a started source replaces the
\* one the ref holds, or the catch runs
DecodeFinished(d) ==
  /\ decoding[d] > 0
  /\ decoding' = [decoding EXCEPT ![d] = @ - 1]
  /\ IF d.audio = "ok"
     THEN /\ endedOwed' = OwedAfterStop
          /\ currentAudioBufferSourceRef' = IF d.closed THEN "dead" ELSE "playing"
          /\ currentGainNodeRef' = "node"
          /\ lastOp' = Label("sourceStarted")
          /\ UNCHANGED <<error, playbackState, isPlayingRef, errorTimers>>
     ELSE /\ error' = "PLAYBACK_FAILED"
          /\ playbackState' = "error"
          /\ isPlayingRef' = FALSE
          /\ errorTimers' = errorTimers + 1
          /\ lastOp' = Label("decodeFailed")
          /\ UNCHANGED <<endedOwed, currentAudioBufferSourceRef, currentGainNodeRef>>

DecodeDone ==
  /\ UNCHANGED <<scenario, routeVars, convVars, tokenHookVars>>
  /\ \E d \in DecodeKinds : DecodeFinished(d)
  /\ UNCHANGED <<audioQueue, currentSegment, isFadingOutRef, playbackAudioContextRef,
                 resuming, pnsResuming, orphanSources, autoPlayTimers, endedTimers>>
  /\ UNCHANGED <<renderVars, fadeVars, connVars, recVars>>
  /\ RenderLagged

\* source.onended, whichever node it belongs to
OnEndedBody ==
  /\ currentAudioBufferSourceRef' = "null"
  /\ currentGainNodeRef' = "null"
  /\ isPlayingRef' = FALSE
  /\ isFadingOutRef' = FALSE
  /\ currentSegment' = NoSegment
  /\ endedTimers' = endedTimers + 1

onEndedRest == <<audioQueue, playbackState, error, playbackAudioContextRef, decoding,
                 resuming, pnsResuming, autoPlayTimers, errorTimers>>

\* the node the ref holds has played to its end
OnEndedNatural ==
  /\ UNCHANGED <<scenario, routeVars, convVars, tokenHookVars>>
  /\ currentAudioBufferSourceRef = "playing"
  /\ playbackAudioContextRef = "running"
  /\ OnEndedBody
  /\ lastOp' = Label("onendedNatural")
  /\ UNCHANGED <<orphanSources, endedOwed>>
  /\ UNCHANGED <<onEndedRest, renderVars, fadeVars, connVars, recVars>>
  /\ RenderLagged

\* a node that stop() was called on delivers its ended event; the node the ref
\* holds, if any, plays on with no ref to it
OnEndedStopped ==
  /\ UNCHANGED <<scenario, routeVars, convVars, tokenHookVars>>
  /\ endedOwed > 0
  /\ endedOwed' = endedOwed - 1
  /\ orphanSources' =
       IF currentAudioBufferSourceRef = "playing" THEN orphanSources + 1 ELSE orphanSources
  /\ OnEndedBody
  /\ lastOp' = Label("onendedStopped")
  /\ UNCHANGED <<onEndedRest, renderVars, fadeVars, connVars, recVars>>
  /\ RenderLagged

\* a node that no ref points to has played to its end
OnEndedOrphan ==
  /\ UNCHANGED <<scenario, routeVars, convVars, tokenHookVars>>
  /\ orphanSources > 0
  /\ playbackAudioContextRef = "running"
  /\ orphanSources' =
       IF currentAudioBufferSourceRef = "playing" THEN orphanSources ELSE orphanSources - 1
  /\ OnEndedBody
  /\ lastOp' = Label("onendedOrphan")
  /\ UNCHANGED endedOwed
  /\ UNCHANGED <<onEndedRest, renderVars, fadeVars, connVars, recVars>>
  /\ RenderLagged

\* the setTimeout(.., 10) callback of source.onended
EndedTimer ==
  /\ UNCHANGED <<scenario, routeVars, convVars, tokenHookVars>>
  /\ endedTimers > 0
  /\ endedTimers' = endedTimers - 1
  /\ IF Len(audioQueueRef) > 0 /\ ~isPlayingRef
     THEN PlayNextSegment
     ELSE /\ playbackState' = "idle"
          /\ UNCHANGED <<audioQueue, currentSegment, isPlayingRef,
                         playbackAudioContextRef, decoding, pnsResuming>>
  /\ lastOp' = Label("endedTimer")
  /\ UNCHANGED <<error, isFadingOutRef, resuming, autoPlayTimers, errorTimers>>
  /\ UNCHANGED <<renderVars, sourceVars, fadeVars, connVars, recVars>>
  /\ RenderLagged

\* the setTimeout(.., 100) callback of the playNextSegment catch
ErrorTimer ==
  /\ UNCHANGED <<scenario, routeVars, convVars, tokenHookVars>>
  /\ errorTimers > 0
  /\ errorTimers' = errorTimers - 1
  /\ IF Len(audioQueueRef) > 0 /\ ~isPlayingRef
     THEN PlayNextSegment
     ELSE UNCHANGED pnsVars
  /\ lastOp' = Label("errorTimer")
  /\ UNCHANGED <<error, isFadingOutRef, resuming, autoPlayTimers, endedTimers>>
  /\ UNCHANGED <<renderVars, sourceVars, fadeVars, connVars, recVars>>
  /\ RenderLagged

(* ===================== connection controller ========================== *)

\* the playback variables but error, which connect() and the transport handlers set
playNoError == <<audioQueue, currentSegment, playbackState, audioQueueRef,
                 renderedPlaybackState, renderedConnectionState, renderLag, isPlayingRef, isFadingOutRef,
                 currentAudioBufferSourceRef, currentGainNodeRef, playbackAudioContextRef,
                 decoding, resuming, pnsResuming, orphanSources, endedOwed, autoPlayTimers,
                 endedTimers, errorTimers, fadeTimers, fadePending>>

\* connectionHandlersRef.current.forEach(handler => handler(newState)) throws: one
\* of the handlers does, and forEach stops there
Throws == throwingHandler # "none"

\* updateConnectionState, called in turn with each state of news: the observers'
\* record of it; a handler registered after one that throws is not called
Notified(news) ==
  IF observing /\ throwingHandler # "first" THEN observed \o news ELSE observed

\* what a statement placed after updateConnectionState(..) assigns: nothing when
\* the dispatch throws
AfterNotify(new, old) == IF Throws THEN old ELSE new

\* what registering or removing a connection handler leaves alone
handlerRest == <<playVars, recVars, connectionState, wsRef, sockets, reconnectAttemptsRef,
                 reconnectTimeoutRef, reconnectTimers, pendingConnects, tmToken,
                 tmRefresh, tmFetches, observed, connTrace, handshakeFailures,
                 disconnectCalled>>

\* onConnectionChange(handler) with a handler that records the states it is given
OnConnectionChange ==
  /\ UNCHANGED <<scenario, routeVars, convVars, tokenHookVars>>
  /\ ~observing
  /\ observing' = TRUE
  /\ lastOp' = Label("onConnectionChange")
  /\ UNCHANGED <<handlerRest, throwingHandler>>

\* onConnectionChange(handler) with a handler that throws: the Set keeps the
\* handlers in the order they were added
OnConnectionChangeThrowing ==
  /\ UNCHANGED <<scenario, routeVars, convVars, tokenHookVars>>
  /\ throwingHandler = "none"
  /\ throwingHandler' = IF observing THEN "last" ELSE "first"
  /\ lastOp' = Label("onConnectionChangeThrowing")
  /\ UNCHANGED <<handlerRest, observing>>

\* the function onConnectionChange returned for the handler that throws
RemoveThrowingHandler ==
  /\ UNCHANGED <<scenario, routeVars, convVars, tokenHookVars>>
  /\ throwingHandler # "none"
  /\ throwingHandler' = "none"
  /\ lastOp' = Label("removeThrowingHandler")
  /\ UNCHANGED <<handlerRest, observing>>

\* room left in the observers' record for one more handler
ObservedRoom == observing => Len(observed) + 2 <= MaxObserved

\* connect() calls suspended at await getToken(), by what the await will give:
\* "wait" the refresh in flight, "ready" a token, "failed" a rejection
NoPending == [k \in {"wait", "ready", "failed"} |-> 0]
PendingCount == pendingConnects["wait"] + pendingConnects["ready"] + pendingConnects["failed"]

\* connection attempts in flight: connect() calls awaiting their token, WebSocket
\* objects with events to deliver, armed reconnect timers
InFlight == PendingCount + Cardinality(sockets) + Cardinality(reconnectTimers)

\* the name of the next WebSocket object
FreeSocketId ==
  CHOOSE i \in 1..MaxSockets : i \notin ({s.id : s \in sockets} \cup reconnectTimers)

\* a getToken that hands out the cached token until it expires, whatever the
\* refresh buffer
GetTokenKindIgnoresBuffer ==
  IF tmToken \in {"fresh", "stale"} THEN "ready"
  ELSE IF tmRefresh = "rejected" THEN "failed"
  ELSE "wait"

\* TokenManager.getToken as connect() awaits it: the kind of the await
GetTokenKind ==
  IF tmToken = "fresh" THEN "ready"
  ELSE IF tmRefresh = "rejected" THEN "failed"
  ELSE "wait"

\* a getToken that starts a refresh of its own while one is in flight
StartsRefreshUnshared == tmToken # "fresh" /\ tmRefresh # "rejected"

\* TokenManager.getToken calls refreshToken: no valid token is cached and no
\* refresh promise is held
StartsRefresh == tmToken # "fresh" /\ tmRefresh = "null"

\* connect(), up to await tokenManagerRef.current.getToken(); when
\* updateConnectionState("connecting") throws, the catch runs instead and its
\* updateConnectionState("error") throws out of connect()
ConnectBody ==
  IF Throws
  THEN /\ connectionState' = "error"
       /\ error' = "CONNECTION_FAILED"
       /\ UNCHANGED <<pendingConnects, tmRefresh, tmFetches>>
  ELSE /\ connectionState' = "connecting"
       /\ error' = "none"
       /\ pendingConnects' = [pendingConnects EXCEPT ![GetTokenKind] = @ + 1]
       /\ tmRefresh' = IF StartsRefresh THEN "pending" ELSE tmRefresh
       /\ tmFetches' = IF StartsRefresh THEN tmFetches + 1 ELSE tmFetches

\* the states connect() hands to updateConnectionState before its await
ConnectNews == IF Throws THEN <<"connecting", "error">> ELSE <<"connecting">>

\* connect() called through the hook's return value (or by the auto-connect effect)
Connect ==
  /\ UNCHANGED <<scenario, routeVars, convVars, tokenHookVars>>
  /\ InFlight < MaxSockets
  /\ ObservedRoom
  /\ ConnectBody
  /\ observed' = Notified(ConnectNews)
  /\ connTrace' = <<connectionState>> \o ConnectNews
  /\ disconnectCalled' = FALSE
  /\ lastOp' = Label("connect")
  /\ UNCHANGED <<playNoError, recVars>>
  /\ UNCHANGED <<wsRef, sockets, reconnectAttemptsRef, reconnectTimeoutRef,
                 reconnectTimers, tmToken, observing, throwingHandler,
                 handshakeFailures>>

\* data.expiresAt of a 2xx answer against Date.now() when the answer is read:
\* refreshToken stores it as given, so the token may be cached inside the refresh
\* buffer or past its expiry (a slow answer, a clock ahead of the issuer's)
AnsweredAges == {"fresh", "stale", "expired"}

\* TokenManager.refreshToken: the fetch answers 2xx; the token is cached with the
\* expiresAt of the answer and every getToken() waiting on the refresh gets it
FetchOkBody ==
  /\ UNCHANGED <<scenario, convVars, tokenHookVars>>
  /\ tmRefresh = "pending"
  /\ tmFetches > 0
  /\ tmFetches' = tmFetches - 1
  /\ tmToken' \in AnsweredAges
  /\ tmRefresh' = "null"
  /\ pendingConnects' = [pendingConnects EXCEPT !["wait"] = 0,
                                                !["ready"] = @ + pendingConnects["wait"]]
  /\ lastOp' = Label("fetchOk")
  /\ UNCHANGED <<playVars, recVars>>
  /\ UNCHANGED <<connectionState, wsRef, sockets, reconnectAttemptsRef,
                 reconnectTimeoutRef, reconnectTimers, observing, throwingHandler,
                 observed, connTrace,
                 handshakeFailures, disconnectCalled>>

FetchOk == FetchOkBody /\ UNCHANGED routeVars

\* TokenManager.refreshToken throws (non-2xx answer or network failure): getToken
\* never reaches this.refreshPromise = null, so the rejected promise stays
FetchFailBody ==
  /\ UNCHANGED <<scenario, convVars, tokenHookVars>>
  /\ tmRefresh = "pending"
  /\ tmFetches > 0
  /\ tmFetches' = tmFetches - 1
  /\ tmRefresh' = "rejected"
  /\ pendingConnects' = [pendingConnects EXCEPT !["wait"] = 0,
                                                !["failed"] = @ + pendingConnects["wait"]]
  /\ lastOp' = Label("fetchFail")
  /\ UNCHANGED <<playVars, recVars>>
  /\ UNCHANGED <<connectionState, wsRef, sockets, reconnectAttemptsRef,
                 reconnectTimeoutRef, reconnectTimers, tmToken, observing,
                 throwingHandler, observed,
                 connTrace, handshakeFailures, disconnectCalled>>

FetchFail == FetchFailBody /\ UNCHANGED routeVars

(* ======================= token route handler =========================== *)

\* the values process.env.VOCALS_DEV_API_KEY is drawn from: not set, set to a
\* key validateApiKeyFormat rejects, set to a key it accepts
ApiKeys == {"unset", "malformed", "valid"}
Methods == {"POST", "GET"}

EnvNotSetMessage == "Environment variable VOCALS_DEV_API_KEY is not set"
InvalidKeyMessage ==
  "Invalid API key format. Must be at least 32 characters and start with \"vdev_\""

Ok == [success |-> TRUE, message |-> "none", code |-> "none"]
Err(message, code) == [success |-> FALSE, message |-> message, code |-> code]

getEnvVar(value) ==
  IF value # "unset" THEN Ok ELSE Err(EnvNotSetMessage, "ENV_VAR_MISSING")

validateApiKeyFormat(value) ==
  IF value = "valid" THEN Ok ELSE Err(InvalidKeyMessage, "VALIDATION_ERROR")

\* the first failing step's result, else the signed token
generateWSToken(value) ==
  IF ~getEnvVar(value).success THEN getEnvVar(value)
  ELSE IF ~validateApiKeyFormat(value).success THEN validateApiKeyFormat(value)
  ELSE Ok

createErrorResponse(message, code, status) ==
  [error |-> message, code |-> code, status |-> status]

sendErrorResponse(message, status) == createErrorResponse(message, "API_ERROR", status)

sendTokenResponse == [error |-> "none", code |-> "none", status |-> 200]

NoResponse == [error |-> "none", code |-> "none", status |-> 0]

\* the handler createWSTokenHandler returns, as the response it sends
createWSTokenHandler(method, value) ==
  IF method # "POST" THEN sendErrorResponse("Method not allowed", 405)
  ELSE IF ~generateWSToken(value).success
       THEN sendErrorResponse(generateWSToken(value).message, 401)
       ELSE sendTokenResponse

\* fetch's response.ok
ResponseOk(response) == response.status \in 200..299

\* the route answers a POST of the token manager, whose refreshToken stays
\* suspended at await fetch until the response reaches it
TokenRouteAnswers ==
  /\ Len(tmResponses) < tmFetches
  /\ routeResponse' = createWSTokenHandler("POST", apiKeyEnv)
  /\ tmResponses' = Append(tmResponses, routeResponse')
  /\ lastOp' = Label("tokenRouteAnswers")
  /\ UNCHANGED <<apiKeyEnv, scenario, convVars, tokenHookVars, playVars, connVars,
                 recVars>>

\* the fetch of refreshToken resolves with a response of the route: refreshToken
\* goes on by response.ok, whatever the route has sent to others since
FetchAnswered ==
  /\ tmResponses # <<>>
  /\ tmResponses' = Tail(tmResponses)
  /\ IF ResponseOk(Head(tmResponses)) THEN FetchOkBody ELSE FetchFailBody
  /\ UNCHANGED <<apiKeyEnv, routeResponse>>

\* the route answers a request of some other client
TokenRouteCalled(method) ==
  /\ routeResponse' = createWSTokenHandler(method, apiKeyEnv)
  /\ lastOp' = Label("tokenRoute")
  /\ UNCHANGED <<apiKeyEnv, tmResponses, scenario, convVars, tokenHookVars, playVars, connVars,
                 recVars>>

TokenRoute == \E method \in Methods : TokenRouteCalled(method)

(* ======================= token hook (useVocalsToken) ==================== *)

\* fetchToken calls at await getToken(): waiting for the promise in refreshPromise
\* (current), for a promise clear() or a resumed getToken() took out of
\* refreshPromise (orphan), or holding a settled promise (ok, fail)
NoTokenCalls == [current |-> 0, orphan |-> 0, ok |-> 0, fail |-> 0]

TokenCallCount == tkCalls.current + tkCalls.orphan + tkCalls.ok + tkCalls.fail

\* refresh requests in flight whose promise refreshPromise no longer holds
OrphanFetches == tmFetches - (IF tmRefresh = "pending" THEN 1 ELSE 0)

tokenHookRest == <<scenario, routeVars, convVars, playVars, recVars, connectionState,
                   wsRef, sockets, reconnectAttemptsRef, reconnectTimeoutRef,
                   reconnectTimers, pendingConnects, observing, throwingHandler,
                   observed, connTrace, handshakeFailures, disconnectCalled>>

\* fetchToken(): setIsLoading(true), setError(null), getToken() up to its await
FetchToken ==
  /\ TokenCallCount < MaxTokenCalls
  /\ tkState' = [tkState EXCEPT !.isLoading = TRUE, !.error = "null"]
  /\ tkCalls' = [tkCalls EXCEPT ![IF GetTokenKind = "ready" THEN "ok"
                                  ELSE IF GetTokenKind = "failed" THEN "fail"
                                  ELSE "current"] = @ + 1]
  /\ tmRefresh' = IF StartsRefresh THEN "pending" ELSE tmRefresh
  /\ tmFetches' = IF StartsRefresh THEN tmFetches + 1 ELSE tmFetches
  /\ lastOp' = Label("fetchToken")
  /\ UNCHANGED <<tmToken, tokenHookRest>>

\* clearToken(): TokenManager.clear(), setToken(null), setExpiresAt(null)
ClearToken ==
  /\ tmToken' = "null"
  /\ tmRefresh' = "null"
  /\ tkState' = [tkState EXCEPT !.token = "null"]
  /\ tkCalls' = [tkCalls EXCEPT !.current = 0, !.orphan = @ + tkCalls.current]
  /\ lastOp' = Label("clearToken")
  /\ UNCHANGED <<tmFetches, tokenHookRest>>

\* the token endpoint answers the request of the promise in refreshPromise:
\* refreshToken stores the token, getToken resets refreshPromise
RefreshOk ==
  /\ tmRefresh = "pending"
  /\ tmFetches' = tmFetches - 1
  /\ tmToken' \in AnsweredAges
  /\ tmRefresh' = "null"
  /\ tkCalls' = [tkCalls EXCEPT !.current = 0, !.ok = @ + tkCalls.current]
  /\ lastOp' = Label("refreshOk")
  /\ UNCHANGED <<tkState, tokenHookRest>>

\* the request of the promise in refreshPromise fails: refreshToken throws and
\* getToken leaves refreshPromise as it is
RefreshFail ==
  /\ tmRefresh = "pending"
  /\ tmFetches' = tmFetches - 1
  /\ tmRefresh' = "rejected"
  /\ tkCalls' = [tkCalls EXCEPT !.current = 0, !.fail = @ + tkCalls.current]
  /\ lastOp' = Label("refreshFail")
  /\ UNCHANGED <<tmToken, tkState, tokenHookRest>>

\* the callers of one orphan promise: all of them when one request is orphan, at
\* least one and not all when several are
OrphanCallers ==
  IF OrphanFetches = 1 THEN {tkCalls.orphan}
  ELSE 1..(tkCalls.orphan - OrphanFetches + 1)

\* the token endpoint answers a request whose promise refreshPromise no longer
\* holds: refreshToken stores the token all the same, and the getToken that made
\* the request resets refreshPromise, whatever it holds by now
OrphanRefreshOk ==
  /\ OrphanFetches > 0
  /\ tmFetches' = tmFetches - 1
  /\ tmToken' \in AnsweredAges
  /\ tmRefresh' = "null"
  /\ \E n \in OrphanCallers :
       tkCalls' = [tkCalls EXCEPT !.current = 0,
                                  !.orphan = @ - n + tkCalls.current,
                                  !.ok = @ + n]
  /\ lastOp' = Label("orphanRefreshOk")
  /\ UNCHANGED <<tkState, tokenHookRest>>

\* a request whose promise refreshPromise no longer holds fails
OrphanRefreshFail ==
  /\ OrphanFetches > 0
  /\ tmFetches' = tmFetches - 1
  /\ \E n \in OrphanCallers :
       tkCalls' = [tkCalls EXCEPT !.orphan = @ - n, !.fail = @ + n]
  /\ lastOp' = Label("orphanRefreshFail")
  /\ UNCHANGED <<tmToken, tmRefresh, tkState, tokenHookRest>>

\* fetchToken after await getToken(): setToken(newToken), setExpiresAt, finally
FetchTokenReturns ==
  /\ tkCalls.ok > 0
  /\ tkCalls' = [tkCalls EXCEPT !.ok = @ - 1]
  /\ tkState' = [tkState EXCEPT !.token = "set", !.isLoading = FALSE]
  /\ lastOp' = Label("fetchTokenReturns")
  /\ UNCHANGED <<tmToken, tmRefresh, tmFetches, tokenHookRest>>

\* fetchToken: catch and finally
FetchTokenFails ==
  /\ tkCalls.fail > 0
  /\ tkCalls' = [tkCalls EXCEPT !.fail = @ - 1]
  /\ tkState' = [tkState EXCEPT !.error = "TOKEN_FETCH_FAILED", !.isLoading = FALSE]
  /\ lastOp' = Label("fetchTokenFails")
  /\ UNCHANGED <<tmToken, tmRefresh, tmFetches, tokenHookRest>>

\* the cached token reaches the refresh buffer, then its expiry
TokenHookClock ==
  /\ tkCalls.ok = 0 /\ tkCalls.fail = 0
  /\ tmToken \in {"fresh", "stale"}
  /\ tmToken' = IF tmToken = "fresh" THEN "stale" ELSE "expired"
  /\ lastOp' = Label("tokenAges")
  /\ UNCHANGED <<tmRefresh, tmFetches, tkState, tkCalls, tokenHookRest>>

(* ======================= conversation list ============================= *)

\* segment ids the server uses, "" for a message without one
SegmentIds == {"s1"}
\* ids built from Date.now(): by addMessage, with Math.random(), and by the
\* llm_response handler for a message without segment_id
LocalIds == {"m1", "m2", "m3", "m4", "m5"}
Texts == {"a", "b"}

StreamingId(segment_id) == IF segment_id = "s1" THEN "s1-streaming" ELSE "-streaming"

MessageIds == SegmentIds \cup {StreamingId(g) : g \in SegmentIds} \cup LocalIds

ChatMessage(id, text, isUser) == [id |-> id, text |-> text, isUser |-> isUser]

\* prev.findIndex((msg) => msg.id === message.id), 0 for -1
FindIndex(prev, id) ==
  IF \E i \in 1..Len(prev) : prev[i].id = id
  THEN CHOOSE i \in 1..Len(prev) :
         /\ prev[i].id = id
         /\ \A j \in 1..(i - 1) : prev[j].id # id
  ELSE 0

\* Array.prototype.slice(start): a negative start counts from the end, and -0
\* is 0
SliceFrom(list, start) ==
  LET from == IF start < 0
              THEN (IF Len(list) + start > 0 THEN Len(list) + start ELSE 0)
              ELSE (IF start < Len(list) THEN start ELSE Len(list))
  IN  SubSeq(list, from + 1, Len(list))

\* the updater addOrUpdateMessage hands to setMessages
AddOrUpdateUpdater(prev, message) ==
  IF FindIndex(prev, message.id) # 0
  THEN [prev EXCEPT ![FindIndex(prev, message.id)] = message]
  ELSE IF Len(prev) + 1 > maxMessages
       THEN SliceFrom(Append(prev, message), 0 - maxMessages)
       ELSE Append(prev, message)

\* an id built from a new Date.now(): no message carries it, and it is not the
\* one the llm_response handler built last
FreshId ==
  CHOOSE id \in LocalIds :
    /\ \A i \in 1..Len(messages) : messages[i].id # id
    /\ id # lastLlmId

\* segment_id || `llm_${Date.now()}`: without a segment_id the id is a new one
\* when the clock has moved since the last such message, and the same one again
\* within the same millisecond
LlmResponseIds(segment_id) ==
  IF segment_id # "" THEN {segment_id}
  ELSE {FreshId} \cup ({lastLlmId} \ {"none"})

ListRoom == Len(messages) < MaxListed

convRest == <<maxMessages, autoPlayAudio, scenario, routeVars, tokenHookVars, playVars, connVars,
              recVars>>

AddOrUpdateMessage(message, op) ==
  /\ ListRoom
  /\ messages' = AddOrUpdateUpdater(messages, message)
  /\ lastOp' = Label(op)
  /\ UNCHANGED convRest

\* handleMessage: transcription
InboundTranscription ==
  /\ SomeSocketOpen
  /\ \E segment_id \in SegmentIds, text \in Texts :
       AddOrUpdateMessage(ChatMessage(segment_id, text, TRUE), "transcription")
  /\ UNCHANGED lastLlmId

\* handleMessage: llm_response_streaming
InboundStreaming ==
  /\ SomeSocketOpen
  /\ \E segment_id \in SegmentIds, text \in Texts :
       AddOrUpdateMessage(ChatMessage(StreamingId(segment_id), text, FALSE),
                          "llmStreaming")
  /\ UNCHANGED lastLlmId

\* handleMessage: llm_response
InboundLlmResponse ==
  /\ SomeSocketOpen
  /\ \E segment_id \in SegmentIds \cup {""}, text \in Texts :
       \E id \in LlmResponseIds(segment_id) :
         /\ AddOrUpdateMessage(ChatMessage(id, text, FALSE), "llmResponse")
         /\ lastLlmId' = IF segment_id = "" THEN id ELSE lastLlmId

\* addMessage(message): the caller's text and isUser, a new id
AddMessage ==
  /\ \E text \in Texts, isUser \in BOOLEAN :
       AddOrUpdateMessage(ChatMessage(FreshId, text, isUser), "addMessage")
  /\ UNCHANGED lastLlmId

\* { ...msg, ...updates }
Merge(msg, updates) ==
  [k \in DOMAIN msg |-> IF k \in DOMAIN updates THEN updates[k] ELSE msg[k]]

\* the Partial<ChatMessage> values a caller passes
Updates == [text : Texts] \cup [id : MessageIds]

\* updateMessage(id, updates)
UpdateMessage ==
  \E id \in MessageIds, updates \in Updates :
    /\ messages' = [i \in 1..Len(messages) |->
                      IF messages[i].id = id THEN Merge(messages[i], updates)
                      ELSE messages[i]]
    /\ lastOp' = Label("updateMessage")
    /\ UNCHANGED <<convRest, lastLlmId>>

\* removeMessage(id)
RemoveMessage ==
  \E id \in MessageIds :
    /\ messages' = SelectSeq(messages, LAMBDA msg : msg.id # id)
    /\ lastOp' = Label("removeMessage")
    /\ UNCHANGED <<convRest, lastLlmId>>

\* clearConversation()
ClearConversation ==
  /\ messages' = <<>>
  /\ lastOp' = Label("clearConversation")
  /\ UNCHANGED <<convRest, lastLlmId>>

\* no connect() is about to resume from its await: a settled await resumes in the
\* task that settled it, before the clock moves
NoneResuming == pendingConnects["ready"] = 0 /\ pendingConnects["failed"] = 0

\* Date.now() reaches expiresAt - refreshBuffer
TokenAges ==
  /\ UNCHANGED <<scenario, routeVars, convVars, tokenHookVars>>
  /\ NoneResuming
  /\ tmToken = "fresh"
  /\ tmToken' = "stale"
  /\ lastOp' = Label("tokenAges")
  /\ UNCHANGED <<playVars, recVars>>
  /\ UNCHANGED <<connectionState, wsRef, sockets, reconnectAttemptsRef,
                 reconnectTimeoutRef, reconnectTimers, pendingConnects, tmRefresh,
                 tmFetches, observing, throwingHandler, observed, connTrace, handshakeFailures,
                 disconnectCalled>>

\* Date.now() reaches expiresAt
TokenExpires ==
  /\ UNCHANGED <<scenario, routeVars, convVars, tokenHookVars>>
  /\ NoneResuming
  /\ tmToken = "stale"
  /\ tmToken' = "expired"
  /\ lastOp' = Label("tokenExpires")
  /\ UNCHANGED <<playVars, recVars>>
  /\ UNCHANGED <<connectionState, wsRef, sockets, reconnectAttemptsRef,
                 reconnectTimeoutRef, reconnectTimers, pendingConnects, tmRefresh,
                 tmFetches, observing, throwingHandler, observed, connTrace, handshakeFailures,
                 disconnectCalled>>

\* startRecording calls suspended at an await: "awaitConnect" waits for its
\* connect() to return, "connectRejected" is at the same await with a connect()
\* that has rejected before its own await, "awaitOpen" polls for the open
\* transport under the 5 s timeout, "awaitInit" waits for the audio processing to
\* be set up
NoRecPending ==
  [k \in {"awaitConnect", "connectRejected", "awaitOpen", "awaitInit"} |-> 0]

\* the recorder variables but recPending
recNoPending == <<recordingState, currentAmplitude, isListeningRef, processorRef,
                  liveProcessors, outbound>>

\* a connect() returns: to a startRecording that awaits it (mine), which goes on to
\* poll for the open transport, or to another caller
ConnectReturns(mine) ==
  IF mine
  THEN /\ recPending["awaitConnect"] > 0
       /\ recPending' = [recPending EXCEPT !["awaitConnect"] = @ - 1,
                                            !["awaitOpen"] = @ + 1]
  ELSE /\ PendingCount > recPending["awaitConnect"]
       /\ recPending' = recPending

\* connect() after the await, with a token: new WebSocket(wsUrl); wsRef.current = ws
ConnectOpensSocket ==
  /\ UNCHANGED <<scenario, routeVars, convVars, tokenHookVars>>
  /\ pendingConnects["ready"] > 0
  /\ pendingConnects' = [pendingConnects EXCEPT !["ready"] = @ - 1]
  /\ \E mine \in BOOLEAN : ConnectReturns(mine)
  /\ sockets' = sockets \cup {[id |-> FreeSocketId, st |-> "connecting"]}
  /\ wsRef' = FreeSocketId
  /\ lastOp' = Label(IF tmToken = "fresh" THEN "connectOpensSocket"
                     ELSE "connectOpensSocketLate")
  /\ UNCHANGED <<playVars, recNoPending>>
  /\ UNCHANGED <<connectionState, reconnectAttemptsRef, reconnectTimeoutRef,
                 reconnectTimers, tmToken, tmRefresh, tmFetches, observing,
                 throwingHandler, observed,
                 connTrace, handshakeFailures, disconnectCalled>>

\* a catch that schedules a reconnect as ws.onclose does
ConnectCatchRetries ==
  /\ connectionState' = "error"
  /\ observed' = Notified(<<"error">>)
  /\ connTrace' = <<connectionState, "error">>
  /\ reconnectTimers' = reconnectTimers \cup {FreeSocketId}
  /\ reconnectTimeoutRef' = FreeSocketId

\* the catch of connect(), after handleError: updateConnectionState("error")
ConnectCatch ==
  /\ connectionState' = "error"
  /\ observed' = Notified(<<"error">>)
  /\ connTrace' = <<connectionState, "error">>
  /\ UNCHANGED <<reconnectTimers, reconnectTimeoutRef>>

\* the catch of connect() ends: connect() returns, unless a connection handler
\* threw out of updateConnectionState("error"), which rejects connect(). A
\* startRecording that awaits it (mine) goes on to poll for the open transport on
\* a return and runs its own catch on a rejection; another caller is given the
\* same and does nothing with it
ConnectCatchEnds(mine) ==
  IF mine /\ Throws
  THEN /\ recPending["awaitConnect"] > 0
       /\ recPending' = [recPending EXCEPT !["awaitConnect"] = @ - 1]
       /\ recordingState' = "error"
       /\ error' = "RECORDING_FAILED"
  ELSE /\ ConnectReturns(mine)
       /\ error' = "CONNECTION_FAILED"
       /\ UNCHANGED recordingState

\* connect() after the await, with a rejection: the catch
ConnectFails ==
  /\ UNCHANGED <<scenario, routeVars, convVars, tokenHookVars>>
  /\ pendingConnects["failed"] > 0
  /\ ObservedRoom
  /\ pendingConnects' = [pendingConnects EXCEPT !["failed"] = @ - 1]
  /\ ConnectCatch
  /\ \E mine \in BOOLEAN : ConnectCatchEnds(mine)
  /\ lastOp' = Label(IF reconnectAttemptsRef > 0 THEN "reconnectFails" ELSE "connectFails")
  /\ UNCHANGED <<playNoError, currentAmplitude, isListeningRef, processorRef,
                 liveProcessors, outbound>>
  /\ UNCHANGED <<wsRef, sockets, reconnectAttemptsRef, tmToken, tmRefresh, tmFetches,
                 observing, throwingHandler, handshakeFailures, disconnectCalled>>

\* ws.onopen of socket s
WsOpened(s) ==
  /\ s.st = "connecting"
  /\ sockets' = (sockets \ {s}) \cup {[s EXCEPT !.st = "open"]}
  /\ connectionState' = "connected"
  /\ reconnectAttemptsRef' = AfterNotify(0, reconnectAttemptsRef)
  /\ observed' = Notified(<<"connected">>)
  /\ connTrace' = <<connectionState, "connected">>
  /\ lastOp' = Label("onopen")
  /\ UNCHANGED <<error, reconnectTimeoutRef, reconnectTimers, handshakeFailures>>

\* ws.onclose decides to reconnect
ShouldReconnect(wasClean) ==
  ~wasClean /\ reconnectAttemptsRef < maxReconnectAttempts

\* the connection state ws.onclose sets
CloseState(wasClean) ==
  IF ShouldReconnect(wasClean) THEN "reconnecting" ELSE "disconnected"

\* ws.onclose of socket s: the reconnect timer it arms after
\* updateConnectionState("reconnecting") is named after the socket
OnCloseTimers(s, wasClean) ==
  /\ reconnectTimers' =
       IF ShouldReconnect(wasClean)
       THEN AfterNotify(reconnectTimers \cup {s.id}, reconnectTimers)
       ELSE reconnectTimers
  /\ reconnectTimeoutRef' =
       IF ShouldReconnect(wasClean) THEN AfterNotify(s.id, reconnectTimeoutRef)
       ELSE reconnectTimeoutRef

\* the transport of socket s fails (handshake failure, or close() before it was
\* established, or a failure of the open connection): error event, then close
\* event with wasClean false, in one task
WsFailed(s) ==
  /\ s.st \in {"connecting", "open", "failing", "closing"}
  /\ sockets' = sockets \ {s}
  /\ error' = "WS_CONNECTION_ERROR"
  /\ connectionState' = CloseState(FALSE)
  /\ OnCloseTimers(s, FALSE)
  /\ observed' = Notified(<<"error", CloseState(FALSE)>>)
  /\ connTrace' = <<connectionState, "error", CloseState(FALSE)>>
  /\ handshakeFailures' =
       IF observing /\ s.st = "connecting" THEN handshakeFailures + 1
       ELSE handshakeFailures
  /\ lastOp' = Label(IF reconnectAttemptsRef >= maxReconnectAttempts
                     THEN "oncloseAtMax" ELSE "onerrorOnclose")
  /\ UNCHANGED reconnectAttemptsRef

\* the transport of socket s closes: close event alone, clean (closing handshake
\* done) or not (the open connection was lost)
WsClosed(s, wasClean) ==
  /\ s.st \in {"open", "closing"}
  /\ sockets' = sockets \ {s}
  /\ connectionState' = CloseState(wasClean)
  /\ OnCloseTimers(s, wasClean)
  /\ observed' = Notified(<<CloseState(wasClean)>>)
  /\ connTrace' = <<connectionState, CloseState(wasClean)>>
  /\ lastOp' = Label(IF wasClean THEN "oncloseClean"
                     ELSE IF reconnectAttemptsRef >= maxReconnectAttempts
                     THEN "oncloseAtMax" ELSE "oncloseUnclean")
  /\ UNCHANGED <<error, reconnectAttemptsRef, handshakeFailures>>

connRest == <<playNoError, recVars, wsRef, pendingConnects, tmToken, tmRefresh,
              tmFetches, observing, throwingHandler, disconnectCalled>>

WsOpen ==
  /\ UNCHANGED <<scenario, routeVars, convVars, tokenHookVars>>
  /\ ObservedRoom
  /\ \E s \in sockets : WsOpened(s)
  /\ UNCHANGED connRest

WsFail ==
  /\ UNCHANGED <<scenario, routeVars, convVars, tokenHookVars>>
  /\ ObservedRoom
  /\ \E s \in sockets : WsFailed(s)
  /\ UNCHANGED connRest

WsClose ==
  /\ UNCHANGED <<scenario, routeVars, convVars, tokenHookVars>>
  /\ ObservedRoom
  /\ \E s \in sockets, wasClean \in BOOLEAN : WsClosed(s, wasClean)
  /\ UNCHANGED connRest

\* the setTimeout callback armed by ws.onclose: reconnectAttemptsRef.current++; connect()
ReconnectTimerFired(t) ==
  /\ reconnectTimers' = reconnectTimers \ {t}
  /\ reconnectAttemptsRef' = reconnectAttemptsRef + 1
  /\ ConnectBody
  /\ observed' = Notified(ConnectNews)
  /\ connTrace' = <<connectionState>> \o ConnectNews
  /\ lastOp' = Label("reconnectTimer")

ReconnectTimer ==
  /\ UNCHANGED <<scenario, routeVars, convVars, tokenHookVars>>
  /\ ObservedRoom
  /\ \E t \in reconnectTimers : ReconnectTimerFired(t)
  /\ UNCHANGED <<playNoError, recVars>>
  /\ UNCHANGED <<wsRef, sockets, reconnectTimeoutRef, tmToken, observing,
                 throwingHandler,
                 handshakeFailures, disconnectCalled>>

\* cleanupAudioResources on the recording refs, and the refs reset after it: the
\* processor the refs point to stops delivering frames
CleanupAudioResources ==
  /\ liveProcessors' = IF processorRef THEN liveProcessors - 1 ELSE liveProcessors
  /\ processorRef' = FALSE

\* WebSocket.close() as disconnect calls it on wsRef.current
CloseSocket(socks, id) ==
  {IF s.id = id
   THEN [s EXCEPT !.st = IF s.st = "connecting" THEN "failing"
                         ELSE IF s.st = "open" THEN "closing" ELSE s.st]
   ELSE s : s \in socks}

\* disconnect. AudioContext.close() silences every node of the context; an ended
\* event still owed by a stopped node may be delivered or lost with the context.
\* The calls suspended at an await (a decode, a resume()) are not cancelled: they
\* go on with the closed context
Disconnect ==
  /\ UNCHANGED <<scenario, routeVars, convVars, tokenHookVars>>
  /\ ObservedRoom
  /\ reconnectTimers' = reconnectTimers \ {reconnectTimeoutRef}
  /\ reconnectTimeoutRef' = 0
  /\ sockets' = CloseSocket(sockets, wsRef)
  /\ wsRef' = 0
  /\ \E kept \in 0..OwedAfterStop :
        endedOwed' = IF playbackAudioContextRef = "null" THEN OwedAfterStop ELSE kept
  /\ orphanSources' = 0
  /\ currentAudioBufferSourceRef' = "null"
  /\ currentGainNodeRef' = "null"
  /\ playbackAudioContextRef' = "null"
  /\ decoding' = [d \in DecodeKinds |->
                    IF d.closed THEN decoding[d] + decoding[[d EXCEPT !.closed = FALSE]]
                    ELSE 0]
  /\ resuming' = [closed \in BOOLEAN |->
                    IF closed THEN resuming[TRUE] + resuming[FALSE] ELSE 0]
  /\ pnsResuming' = [d \in DecodeKinds |->
                       IF d.closed
                       THEN pnsResuming[d] + pnsResuming[[d EXCEPT !.closed = FALSE]]
                       ELSE 0]
  /\ connectionState' = "disconnected"
  /\ observed' = Notified(<<"disconnected">>)
  /\ connTrace' = <<connectionState, "disconnected">>
  /\ reconnectAttemptsRef' = AfterNotify(0, reconnectAttemptsRef)
  /\ playbackState' = AfterNotify("idle", playbackState)
  /\ audioQueue' = AfterNotify(<<>>, audioQueue)
  /\ currentSegment' = AfterNotify(NoSegment, currentSegment)
  /\ isPlayingRef' = AfterNotify(FALSE, isPlayingRef)
  /\ isFadingOutRef' = AfterNotify(FALSE, isFadingOutRef)
  /\ disconnectCalled' = TRUE
  /\ recordingState' = AfterNotify("idle", recordingState)
  /\ isListeningRef' = AfterNotify(FALSE, isListeningRef)
  /\ CleanupAudioResources
  /\ lastOp' = Label("disconnect")
  /\ UNCHANGED <<error, pendingConnects, tmToken, tmRefresh, tmFetches, observing,
                 throwingHandler,
                 handshakeFailures>>
  /\ UNCHANGED <<currentAmplitude, recPending, outbound>>
  /\ UNCHANGED <<renderVars, timerVars, fadeVars>>
  /\ RenderLagged

(* ============================ recorder ================================ *)

\* captured frames and inbound media payloads: PCM samples
FrameA == <<1, -1>>
FrameB == <<2, -2, 2, -2>>
Frames == {FrameA, FrameB}

RECURSIVE SumAbs(_)
\* audioData.reduce((sum, sample) => sum + Math.abs(sample), 0)
SumAbs(data) ==
  IF data = <<>> THEN 0
  ELSE (IF Head(data) < 0 THEN 0 - Head(data) ELSE Head(data)) + SumAbs(Tail(data))

\* the amplitude ws.onmessage computes: the mean absolute sample (the payloads
\* used here have an integer mean)
Amplitude(data) == SumAbs(data) \div Len(data)

\* recordings in flight: startRecording calls at an await and live processors
RecInFlight ==
  recPending["awaitConnect"] + recPending["connectRejected"] + recPending["awaitOpen"]
  + recPending["awaitInit"] + liveProcessors

\* wsRef.current?.readyState === WebSocket.OPEN
WsRefOpen == \E s \in sockets : s.id = wsRef /\ s.st = "open"

\* room left in the record of outbound events
OutboundRoom == Len(outbound) < MaxOutbound

\* a sendMessage that hands the event to the transport whatever its state
SendMessageBodyUnchecked(event) ==
  /\ outbound' = IF event = "start" THEN <<"start">> ELSE Append(outbound, event)
  /\ error' = error

\* sendMessage(message): the event goes on the open transport, or a
\* WS_NOT_CONNECTED error goes to handleError
SendMessageBody(event) ==
  IF WsRefOpen
  THEN /\ outbound' = IF event = "start" THEN <<"start">> ELSE Append(outbound, event)
       /\ error' = error
  ELSE /\ outbound' = outbound
       /\ error' = "WS_NOT_CONNECTED"

recRest == <<audioQueue, currentSegment, playbackState, audioQueueRef,
             renderedPlaybackState, renderedConnectionState, renderLag, isPlayingRef, isFadingOutRef,
             currentAudioBufferSourceRef, currentGainNodeRef, playbackAudioContextRef,
             decoding, resuming, pnsResuming, orphanSources, endedOwed, autoPlayTimers,
             endedTimers, errorTimers, fadeTimers, fadePending>>

\* sendMessage(message) called through the hook's return value
SendMessage ==
  /\ UNCHANGED <<scenario, routeVars, convVars, tokenHookVars>>
  /\ OutboundRoom
  /\ SendMessageBody("message")
  /\ lastOp' = Label(IF WsRefOpen THEN "sendMessage" ELSE "sendMessageClosed")
  /\ UNCHANGED <<recRest, connVars>>
  /\ UNCHANGED <<recordingState, currentAmplitude, isListeningRef, processorRef,
                 liveProcessors, recPending>>

\* startRecording from the check of the transport on: the start event, then the
\* await of the audio processing; the catch when the transport is not open
StartRecordingSends ==
  IF WsRefOpen
  THEN /\ outbound' = <<"start">>
       /\ recPending' = [recPending EXCEPT !["awaitInit"] = @ + 1]
       /\ recordingState' = "recording"
       /\ error' = "none"
  ELSE /\ recordingState' = "error"
       /\ error' = "RECORDING_FAILED"
       /\ UNCHANGED <<outbound, recPending>>

\* startRecording() of a render that showed the connection state connected
StartRecordingConnected ==
  /\ UNCHANGED <<scenario, routeVars, convVars, tokenHookVars>>
  /\ renderedConnectionState = "connected"
  /\ RecInFlight < MaxRecordings
  /\ StartRecordingSends
  /\ lastOp' = Label("startRecording")
  /\ UNCHANGED <<recRest, connVars>>
  /\ UNCHANGED <<currentAmplitude, isListeningRef, processorRef, liveProcessors>>

\* startRecording() of a render that showed another connection state than
\* connected, up to its first await: setRecordingState("recording"), then
\* connect() up to its own await. A connect() that a connection handler makes
\* throw has run its catch and rejected by then, and the call waits at
\* await connect() for the rejection to be delivered
StartRecordingConnects ==
  /\ UNCHANGED <<scenario, routeVars, convVars, tokenHookVars>>
  /\ renderedConnectionState # "connected"
  /\ RecInFlight < MaxRecordings
  /\ InFlight < MaxSockets
  /\ ObservedRoom
  /\ recordingState' = "recording"
  /\ ConnectBody
  /\ recPending' = [recPending EXCEPT ![IF Throws THEN "connectRejected"
                                         ELSE "awaitConnect"] = @ + 1]
  /\ observed' = Notified(ConnectNews)
  /\ connTrace' = <<connectionState>> \o ConnectNews
  /\ disconnectCalled' = FALSE
  /\ lastOp' = Label("startRecordingConnects")
  /\ UNCHANGED recRest
  /\ UNCHANGED <<wsRef, sockets, reconnectAttemptsRef, reconnectTimeoutRef,
                 reconnectTimers, tmToken, observing, throwingHandler,
                 handshakeFailures>>
  /\ UNCHANGED <<currentAmplitude, isListeningRef, processorRef, liveProcessors,
                 outbound>>

\* await connect() delivers the rejection of a connect() that threw before its
\* await: the catch of startRecording
RecConnectRejected ==
  /\ UNCHANGED <<scenario, routeVars, convVars, tokenHookVars>>
  /\ recPending["connectRejected"] > 0
  /\ recPending' = [recPending EXCEPT !["connectRejected"] = @ - 1]
  /\ recordingState' = "error"
  /\ error' = "RECORDING_FAILED"
  /\ lastOp' = Label("recConnectRejected")
  /\ UNCHANGED <<recRest, connVars>>
  /\ UNCHANGED <<currentAmplitude, isListeningRef, processorRef, liveProcessors,
                 outbound>>

\* checkConnection finds the transport open: startRecording goes on
RecOpenSeen ==
  /\ UNCHANGED <<scenario, routeVars, convVars, tokenHookVars>>
  /\ recPending["awaitOpen"] > 0
  /\ WsRefOpen
  /\ outbound' = <<"start">>
  /\ recPending' = [recPending EXCEPT !["awaitOpen"] = @ - 1, !["awaitInit"] = @ + 1]
  /\ lastOp' = Label("recOpenSeen")
  /\ UNCHANGED <<recRest, connVars, error>>
  /\ UNCHANGED <<recordingState, currentAmplitude, isListeningRef, processorRef,
                 liveProcessors>>

\* the 5 s connection timeout of startRecording: the catch. The timeout can fire
\* on a transport that opened after the last 100 ms poll
RecTimeout ==
  /\ UNCHANGED <<scenario, routeVars, convVars, tokenHookVars>>
  /\ recPending["awaitOpen"] > 0
  /\ recPending' = [recPending EXCEPT !["awaitOpen"] = @ - 1]
  /\ recordingState' = "error"
  /\ error' = "RECORDING_FAILED"
  /\ lastOp' = Label("recTimeout")
  /\ UNCHANGED <<recRest, connVars>>
  /\ UNCHANGED <<currentAmplitude, isListeningRef, processorRef, liveProcessors,
                 outbound>>

\* startRecording after the audio processing is set up: the refs, the settings
\* event, the listening gate
InitDone ==
  /\ UNCHANGED <<scenario, routeVars, convVars, tokenHookVars>>
  /\ recPending["awaitInit"] > 0
  /\ OutboundRoom
  /\ recPending' = [recPending EXCEPT !["awaitInit"] = @ - 1]
  /\ liveProcessors' = liveProcessors + 1
  /\ processorRef' = TRUE
  /\ SendMessageBody("settings")
  /\ isListeningRef' = TRUE
  /\ lastOp' = Label(IF WsRefOpen THEN "settings" ELSE "settingsDropped")
  /\ UNCHANGED <<recRest, connVars>>
  /\ UNCHANGED <<recordingState, currentAmplitude>>

\* the audio processing cannot be set up (no microphone, permission denied): the
\* catch of startRecording
InitFailed ==
  /\ UNCHANGED <<scenario, routeVars, convVars, tokenHookVars>>
  /\ recPending["awaitInit"] > 0
  /\ recPending' = [recPending EXCEPT !["awaitInit"] = @ - 1]
  /\ recordingState' = "error"
  /\ error' = "RECORDING_FAILED"
  /\ lastOp' = Label("initFailed")
  /\ UNCHANGED <<recRest, connVars>>
  /\ UNCHANGED <<currentAmplitude, isListeningRef, processorRef, liveProcessors,
                 outbound>>

\* the capture callback forwards the frame
FrameSent == isListeningRef /\ WsRefOpen

\* the capture callback of a live processor, called with a frame
Frame(data) ==
  /\ UNCHANGED <<scenario, routeVars, convVars, tokenHookVars>>
  /\ liveProcessors > 0
  /\ FrameSent => OutboundRoom
  /\ outbound' = IF FrameSent THEN Append(outbound, "media") ELSE outbound
  /\ lastOp' = Label(IF FrameSent THEN "frameSent"
                     ELSE IF isListeningRef THEN "frameDroppedClosed" ELSE "frameDropped")
  /\ UNCHANGED <<recRest, connVars, error>>
  /\ UNCHANGED <<recordingState, currentAmplitude, isListeningRef, processorRef,
                 liveProcessors, recPending>>

\* ws.onmessage for a message with event "media" and an array of samples
InboundMedia(data) ==
  /\ UNCHANGED <<scenario, routeVars, convVars, tokenHookVars>>
  /\ SomeSocketOpen
  /\ currentAmplitude' = Amplitude(data)
  /\ lastOp' = Label("inboundMedia")
  /\ UNCHANGED <<recRest, connVars, error>>
  /\ UNCHANGED <<recordingState, isListeningRef, processorRef, liveProcessors,
                 recPending, outbound>>

\* ws.onmessage for a message that JSON.parse rejects, or that makes the handler
\* throw before its end: the catch logs it to the console
InboundUnparsed ==
  /\ UNCHANGED <<scenario, routeVars, convVars, tokenHookVars>>
  /\ SomeSocketOpen
  /\ lastOp' = Label("messageUnparsed")
  /\ UNCHANGED <<recRest, connVars, recVars, error>>

\* stopRecording()
StopRecording ==
  /\ UNCHANGED <<scenario, routeVars, convVars, tokenHookVars>>
  /\ WsRefOpen => OutboundRoom
  /\ isListeningRef' = FALSE
  /\ recordingState' = "idle"
  /\ SendMessageBody("stop")
  /\ CleanupAudioResources
  /\ lastOp' = Label("stopRecording")
  /\ UNCHANGED <<recRest, connVars>>
  /\ UNCHANGED <<currentAmplitude, recPending>>

(* ========================= specifications ============================= *)

\* the recorder after the first render
InitRecording ==
  /\ recordingState = "idle"
  /\ currentAmplitude = 0
  /\ isListeningRef = FALSE
  /\ processorRef = FALSE
  /\ liveProcessors = 0
  /\ recPending = NoRecPending
  /\ outbound = <<>>

\* the playback scheduler and the recorder after the first render
InitHook ==
  /\ audioQueue = <<>>
  /\ currentSegment = NoSegment
  /\ playbackState = "idle"
  /\ error = "none"
  /\ audioQueueRef = <<>>
  /\ renderedPlaybackState = "idle"
  /\ renderLag = 0
  /\ isPlayingRef = FALSE
  /\ isFadingOutRef = FALSE
  /\ currentAudioBufferSourceRef = "null"
  /\ currentGainNodeRef = "null"
  /\ playbackAudioContextRef = "null"
  /\ decoding = [d \in DecodeKinds |-> 0]
  /\ resuming = [closed \in BOOLEAN |-> 0]
  /\ pnsResuming = [d \in DecodeKinds |-> 0]
  /\ orphanSources = 0
  /\ endedOwed = 0
  /\ autoPlayTimers = 0
  /\ endedTimers = 0
  /\ errorTimers = 0
  /\ fadeTimers = {}
  /\ fadePending = {}
  /\ lastOp = "other"
  /\ InitRecording

\* a deployment with a well-formed key, and no request answered yet
InitRoute ==
  /\ apiKeyEnv = "valid"
  /\ routeResponse = NoResponse
  /\ tmResponses = <<>>

\* useVocalsConversation after the first render, with the default maxMessages
\* and autoPlayAudio
InitConversation ==
  /\ messages = <<>>
  /\ maxMessages = DefaultMaxMessages
  /\ autoPlayAudio = TRUE
  /\ lastLlmId = "none"

\* useVocalsToken after the first render
InitTokenHook ==
  /\ tkState = [token |-> "null", isLoading |-> FALSE, error |-> "null"]
  /\ tkCalls = NoTokenCalls

InitPlayback == InitHook /\ InitRoute /\ InitConversation /\ InitTokenHook

\* the connection controller after the first render, before connect()
InitDisconnected ==
  /\ connectionState = "disconnected"
  /\ renderedConnectionState = "disconnected"
  /\ wsRef = 0
  /\ sockets = {}
  /\ reconnectAttemptsRef = 0
  /\ reconnectTimeoutRef = 0
  /\ reconnectTimers = {}
  /\ pendingConnects = NoPending
  /\ tmToken = "null"
  /\ tmRefresh = "null"
  /\ observed = <<>>
  /\ connTrace = <<"disconnected">>
  /\ handshakeFailures = 0
  /\ tmFetches = 0
  /\ disconnectCalled = FALSE

\* the connection controller once connect() has fetched its token and its
\* transport has opened
InitConnected ==
  /\ connectionState = "connected"
  /\ renderedConnectionState = "connected"
  /\ wsRef = 1
  /\ sockets = {[id |-> 1, st |-> "open"]}
  /\ reconnectAttemptsRef = 0
  /\ reconnectTimeoutRef = 0
  /\ reconnectTimers = {}
  /\ pendingConnects = NoPending
  /\ tmToken = "fresh"
  /\ tmRefresh = "null"
  /\ observed = <<>>
  /\ connTrace = <<"connecting", "connected">>
  /\ handshakeFailures = 0
  /\ tmFetches = 0
  /\ disconnectCalled = FALSE

\* playback on an open connection
Init ==
  /\ InitPlayback
  /\ InitConnected
  /\ observing = FALSE
  /\ throwingHandler = "none"
  /\ segmentPool = {SegA, SegB, SegC}
  /\ trackedOps = {}
  /\ renderLagBound = 0
  /\ pendingBound = MaxPending

\* playback on an open connection where React commits a due render before more
\* than MaxRenderLag handlers have run
InitPrompt ==
  /\ InitPlayback
  /\ InitConnected
  /\ observing = FALSE
  /\ throwingHandler = "none"
  /\ segmentPool = {SegA, SegB, SegC}
  /\ trackedOps = {}
  /\ renderLagBound = MaxRenderLag
  /\ pendingBound = MaxPending

\* the scheduler without decode failures and without disconnect
NextCore ==
  \/ Render
  \/ \E segment \in segmentPool : AddToQueue(segment)
  \/ \E segment \in segmentPool : TtsAudio(segment)
  \/ AutoPlayTimer
  \/ PlayAudio
  \/ ResumeDone
  \/ PnsResumeDone
  \/ PauseAudio
  \/ StopAudio
  \/ ClearQueue
  \/ FadeOutAudio
  \/ \E reason \in InterruptionReasons : SpeechInterruption(reason)
  \/ FadeTimer
  \/ DecodeDone
  \/ OnEndedNatural
  \/ OnEndedStopped
  \/ OnEndedOrphan
  \/ EndedTimer

\* the scheduler with decode failures
NextDecode == NextCore \/ ErrorTimer

\* the scheduler and disconnect
Next == NextDecode \/ Disconnect

Spec == Init /\ [][Next]_vars

SpecPrompt == InitPrompt /\ [][Next]_vars

\* the connection controller from its first render, called by a component that
\* registers no connection handler
InitConn ==
  /\ InitPlayback
  /\ InitDisconnected
  /\ observing = FALSE
  /\ throwingHandler = "none"
  /\ segmentPool = {}
  /\ trackedOps = {}
  /\ renderLagBound = 0
  /\ pendingBound = MaxPending

\* connect, disconnect, the token fetch, the transports and the reconnect timers
NextConn ==
  \/ Connect
  \/ FetchOk
  \/ FetchFail
  \/ TokenAges
  \/ TokenExpires
  \/ ConnectOpensSocket
  \/ ConnectFails
  \/ WsOpen
  \/ WsFail
  \/ WsClose
  \/ ReconnectTimer
  \/ Disconnect

SpecConn == InitConn /\ [][NextConn]_vars

\* the connection controller from its first render, with one handler registered
\* through onConnectionChange
InitObserved ==
  /\ InitPlayback
  /\ InitDisconnected
  /\ observing = TRUE
  /\ throwingHandler = "none"
  /\ segmentPool = {}
  /\ trackedOps = {}
  /\ renderLagBound = 0
  /\ pendingBound = MaxPending

\* connect() called once, on the controller that has never connected
FirstConnect == observed = <<>> /\ Connect

\* one connect() call and what the token endpoint, the transports and the
\* reconnect timers make of it
NextHandshake ==
  \/ FirstConnect
  \/ FetchOk
  \/ TokenAges
  \/ ConnectOpensSocket
  \/ WsOpen
  \/ WsFail
  \/ WsClose
  \/ ReconnectTimer

SpecHandshake == InitObserved /\ [][NextHandshake]_vars

(* ============================ properties ============================== *)

\* the identity key of a segment
Key(segment) == <<segment.segment_id, segment.sentence_number>>

(* ---- C1 ---- *)
\* the scheduler, telling apart the adds of a key already queued; the segments
\* differ from one another in the segment_id only, in the sentence_number only,
\* or in both
InitQueue ==
  /\ InitPlayback
  /\ InitConnected
  /\ observing = FALSE
  /\ throwingHandler = "none"
  /\ segmentPool = {SegA, SegC, SegD}
  /\ trackedOps = {"addToQueueDuplicate", "tts_audioDuplicate"}
  /\ renderLagBound = 0
  /\ pendingBound = MaxPending

\* the operations on the queue: addToQueue, directly and for a tts_audio message,
\* playAudio with its decode, the natural completion, stopAudio, fadeOutAudio with
\* its timer, clearQueue and disconnect, and the renders and ended events between
\* them
NextQueue ==
  \/ Render
  \/ \E segment \in segmentPool : AddToQueue(segment)
  \/ \E segment \in segmentPool : TtsAudio(segment)
  \/ AutoPlayTimer
  \/ PlayAudio
  \/ DecodeDone
  \/ OnEndedNatural
  \/ OnEndedStopped
  \/ OnEndedOrphan
  \/ EndedTimer
  \/ StopAudio
  \/ FadeOutAudio
  \/ FadeTimer
  \/ ClearQueue
  \/ Disconnect

SpecQueue == InitQueue /\ [][NextQueue]_vars

NoDuplicateKeys ==
  \A i, j \in 1..Len(audioQueue) : i # j => Key(audioQueue[i]) # Key(audioQueue[j])

AddKeepsOrAppends ==
  \A segment \in segmentPool :
     (AddToQueue(segment) \/ TtsAudio(segment)) =>
        audioQueue' = IF \E i \in 1..Len(audioQueue) : Key(audioQueue[i]) = Key(segment)
                      THEN audioQueue
                      ELSE audioQueue \o <<segment>>

\* C1: the queue never holds two segments with the same (segment_id,
\* sentence_number); adding a segment whose key is already queued leaves the queue
\* unchanged, and adding any other segment appends it at the tail.
C1_QueueHasNoDuplicateKey == []NoDuplicateKeys /\ [][AddKeepsOrAppends]_vars

\* a segment with the key of a queued one was handed in, after a disconnect, and
\* the queue kept; the queue holds segments that share a segment_id and segments
\* that share a sentence_number
C1_DuplicateRejected ==
  /\ lastOp = "addToQueueDuplicate"
  /\ disconnectCalled
  /\ audioQueue = <<SegA, SegC, SegD>>

(* ---- C2 ---- *)
\* C2: at every instant at most one audio source that has started has not ended,
\* whatever the interleaving of playback calls, messages, timers and ended events.
C2_AtMostOneLiveSource == LiveSources <= 1

(* ---- C3 ---- *)
\* the scheduler without clearQueue, interruptions and disconnect
NextFifo ==
  \/ Render
  \/ \E segment \in segmentPool : AddToQueue(segment)
  \/ \E segment \in segmentPool : TtsAudio(segment)
  \/ AutoPlayTimer
  \/ PlayAudio
  \/ ResumeDone
  \/ PnsResumeDone
  \/ PauseAudio
  \/ StopAudio
  \/ FadeOutAudio
  \/ FadeTimer
  \/ DecodeDone
  \/ OnEndedNatural
  \/ OnEndedStopped
  \/ OnEndedOrphan
  \/ EndedTimer
  \/ ErrorTimer

SpecFifo == InitPrompt /\ [][NextFifo]_vars

\* a step in which playNextSegment begins a segment
Dequeues == DecodingCount' = DecodingCount + 1

DequeueTakesHead ==
  Dequeues => /\ audioQueue # <<>>
              /\ currentSegment' = Head(audioQueue)
              /\ audioQueue' = Tail(audioQueue)

QueueKeepsOrder ==
  (~Dequeues /\ audioQueue' # audioQueue) =>
     /\ Len(audioQueue') = Len(audioQueue) + 1
     /\ SubSeq(audioQueue', 1, Len(audioQueue)) = audioQueue

\* C3: segments start in the order addToQueue accepted them: the segment that
\* playNextSegment makes current is the head of the queue, exactly that segment
\* leaves the queue, and without clearQueue or disconnect nothing else removes or
\* reorders queued segments.
C3_StartsInAcceptedOrder == [][DequeueTakesHead /\ QueueKeepsOrder]_vars

(* ---- C4 ---- *)
\* the scheduler, telling apart the playAudio calls made while the playing flag is set
InitPlayAudio ==
  /\ InitPlayback
  /\ InitConnected
  /\ observing = FALSE
  /\ throwingHandler = "none"
  /\ segmentPool = {SegA, SegC}
  /\ trackedOps = {"playAudioWhilePlaying"}
  /\ renderLagBound = 0
  /\ pendingBound = MaxPending

SpecPlayAudio == InitPlayAudio /\ [][NextCore]_vars

\* C4: playAudio() called while the playing flag is set changes nothing: no
\* segment is dequeued or started, no state is written.
C4_PlayAudioWhilePlayingIsNoOp ==
  [][(isPlayingRef /\ PlayAudio) => UNCHANGED <<playVars, connVars, recVars>>]_vars

\* playAudio() has just returned from a call made while a segment was playing and
\* another one was queued and visible to it
C4_CalledWhilePlaying ==
  /\ lastOp = "playAudioWhilePlaying"
  /\ isPlayingRef
  /\ audioQueue # <<>>
  /\ audioQueueRef = audioQueue

(* ---- C5 ---- *)
\* playback left to itself: segments arrive, play to their end or fail to decode,
\* and nobody pauses, stops, fades, clears or disconnects
NextChain ==
  \/ Render
  \/ \E segment \in segmentPool : AddToQueue(segment)
  \/ \E segment \in segmentPool : TtsAudio(segment)
  \/ AutoPlayTimer
  \/ PlayAudio
  \/ DecodeDone
  \/ OnEndedNatural
  \/ EndedTimer
  \/ ErrorTimer

SpecChain == InitPrompt /\ [][NextChain]_vars

CompletionChains ==
  (EndedTimer /\ ~isPlayingRef) =>
     IF audioQueue # <<>>
     THEN /\ isPlayingRef'
          /\ currentSegment' = Head(audioQueue)
          /\ audioQueue' = Tail(audioQueue)
     ELSE playbackState' = "idle"

\* C5: when the current segment has played to its end, the delayed check of its
\* completion handler starts the head of a non-empty queue with no playAudio()
\* from outside, and sets the playback state to idle when the queue is empty.
C5_NaturalCompletionChains == [][CompletionChains]_vars

(* ---- C6 ---- *)
\* the scheduler, telling apart the handling of interrupting messages
InitInterruption ==
  /\ InitPlayback
  /\ InitConnected
  /\ observing = FALSE
  /\ throwingHandler = "none"
  /\ segmentPool = {SegA, SegC}
  /\ trackedOps = {"interruptionFading", "interruptionCleared", "fadeTimerCleared"}
  /\ renderLagBound = 0
  /\ pendingBound = MaxPending

SpecInterruption == InitInterruption /\ [][NextCore \/ Disconnect]_vars

\* an interrupting message that finds a started source leaves it playing under a
\* fade, with a fade timer that clearQueue will follow
InterruptionFades ==
  \A reason \in {"new_speech_segment", "speech_segment_merged"} :
     (SpeechInterruption(reason) /\ currentAudioBufferSourceRef = "playing") =>
        /\ isFadingOutRef'
        /\ \E t \in fadeTimers' : t.thenClear
        /\ currentAudioBufferSourceRef' = "playing"

ClearedAfterInterruption ==
  lastOp \in {"interruptionCleared", "fadeTimerCleared"} =>
     /\ audioQueue = <<>>
     /\ currentSegment = NoSegment
     /\ playbackState = "idle"

\* C6: a speech_interruption with reason new_speech_segment or
\* speech_segment_merged that finds a segment playing fades it out; once the fade
\* has resolved and clearQueue has run, the queue is empty, whatever was enqueued
\* during the fade, there is no current segment and the playback state is idle.
C6_InterruptionEmptiesTheQueue ==
  []ClearedAfterInterruption /\ [][InterruptionFades]_vars

(* ---- C7 ---- *)
\* the scheduler and disconnect, telling apart the fade timers that fire after the
\* playback resources were released; with room for the timer of a fade that
\* stopAudio or clearQueue cut short, a new source and the timer of its fade
InitFade ==
  /\ InitPlayback
  /\ InitConnected
  /\ observing = FALSE
  /\ throwingHandler = "none"
  /\ segmentPool = {SegA}
  /\ trackedOps = {"fadeTimerAfterRelease"}
  /\ renderLagBound = 0
  /\ pendingBound = MaxPending + 1

\* every pending setTimeout callback runs in the end
SpecFade ==
  /\ InitFade
  /\ [][NextCore \/ Disconnect]_vars
  /\ \A t \in FadeTimerIds : WF_vars(FadeTimerOf(t))

\* C7: every fadeOutAudio call resolves in the end, whether nothing is playing, a
\* fade is already in progress or a segment is playing, and whether or not
\* stopAudio, clearQueue or disconnect release the playback resources before the
\* timer of the fade fires.
C7_EveryFadeResolves ==
  \A i \in 1..(MaxFades + 1) : (i \in fadePending) ~> (i \notin fadePending)

\* the timer of a fade has fired after the gain node was released, and no fade is
\* left unresolved
C7_ResolvedAfterRelease ==
  /\ lastOp = "fadeTimerAfterRelease"
  /\ fadePending = {}

(* ---- C8 ---- *)
AttemptsWithinMax == reconnectAttemptsRef <= maxReconnectAttempts

\* a transport closes abnormally: after an error, or with wasClean false
AbnormalClose ==
  \/ WsFail
  \/ /\ UNCHANGED <<scenario, routeVars, convVars, tokenHookVars>>
     /\ \E s \in sockets : WsClosed(s, FALSE)
     /\ UNCHANGED connRest

CloseAtMaxDisconnects ==
  (reconnectAttemptsRef = maxReconnectAttempts /\ AbnormalClose)
    => (connectionState' = "disconnected" /\ reconnectTimers' = {})

\* C8: the reconnect attempt counter never exceeds maxReconnectAttempts, and an
\* abnormal close that finds the counter at maxReconnectAttempts leaves the
\* controller Disconnected with no reconnect timer armed, never Reconnecting.
C8_AttemptsNeverExceedMax ==
  []AttemptsWithinMax /\ [][CloseAtMaxDisconnects]_vars

(* ---- C9 ---- *)
Range(seq) == {seq[i] : i \in 1..Len(seq)}

Count(seq, x) == Cardinality({i \in 1..Len(seq) : seq[i] = x})

\* Connecting, then Reconnecting three times interleaved with Connecting, then
\* Disconnected, and nothing else
SawThreeReconnects ==
  /\ Len(observed) >= 2
  /\ observed[1] = "connecting"
  /\ observed[Len(observed)] = "disconnected"
  /\ Count(observed, "reconnecting") = 3
  /\ \A i \in 2..(Len(observed) - 1) : observed[i] \in {"reconnecting", "connecting"}
  /\ \A i \in 1..(Len(observed) - 1) : observed[i] # observed[i + 1]

\* every transport of the session failed its handshake, three of them at least,
\* and no attempt is left in flight
HandshakesAllFailed ==
  /\ handshakeFailures >= maxReconnectAttempts
  /\ "connected" \notin Range(observed)
  /\ InFlight = 0

\* C9: with maxReconnectAttempts = 3, after connect() on a transport that fails
\* every handshake the final state is Disconnected and the handlers have seen
\* exactly Connecting, then Reconnecting three times interleaved with Connecting,
\* then Disconnected.
C9_ThreeFailedHandshakes ==
  HandshakesAllFailed => (connectionState = "disconnected" /\ SawThreeReconnects)

(* ---- C10 ---- *)
\* connect, disconnect, the transports and the reconnect timers, with a token
\* endpoint that answers every fetch
NextEdges ==
  \/ Connect
  \/ FetchOk
  \/ TokenAges
  \/ ConnectOpensSocket
  \/ WsOpen
  \/ WsFail
  \/ WsClose
  \/ ReconnectTimer
  \/ Disconnect

SpecEdges == InitConn /\ [][NextEdges]_vars

\* the edges of the connection state machine
AllowedEdge(from, to) ==
  \/ from = to
  \/ from = "disconnected" /\ to = "connecting"
  \/ from = "connecting" /\ to = "connected"
  \/ from \in {"connecting", "connected"} /\ to = "reconnecting"
  \/ from = "reconnecting" /\ to = "connecting"
  \/ to = "error"
  \/ to = "disconnected"

\* C10: the connection state only moves along Disconnected to Connecting,
\* Connecting to Connected, Connecting or Connected to Reconnecting, Reconnecting
\* to Connecting, any state to Error and any state to Disconnected; in particular
\* never from Disconnected directly to Connected.
C10_OnlyAllowedEdges ==
  \A i \in 1..(Len(connTrace) - 1) : AllowedEdge(connTrace[i], connTrace[i + 1])

(* ---- C11 ---- *)
\* the callers waiting for a token wait on one request to the token endpoint
OneFetchForAllWaiters ==
  /\ tmFetches <= 1
  /\ pendingConnects["wait"] > 0 => tmFetches = 1

\* the answer to the request settles every waiting caller the same way
RefreshAnswersAll ==
  tmFetches' < tmFetches =>
    /\ pendingConnects'["wait"] = 0
    /\ \/ /\ pendingConnects'["ready"] = pendingConnects["ready"] + pendingConnects["wait"]
          /\ pendingConnects'["failed"] = pendingConnects["failed"]
          /\ tmToken' \in AnsweredAges
       \/ /\ pendingConnects'["failed"] = pendingConnects["failed"] + pendingConnects["wait"]
          /\ pendingConnects'["ready"] = pendingConnects["ready"]

\* C11: when several getToken() calls are made while no valid token is cached and
\* before the first refresh has completed, exactly one request is sent to the token
\* endpoint and every caller receives the result of that one refresh.
C11_OneRefreshForConcurrentCallers ==
  []OneFetchForAllWaiters /\ [][RefreshAnswersAll]_vars

\* two connect() calls wait for their token on a single request
C11_TwoCallersOneFetch ==
  /\ pendingConnects["wait"] >= 2
  /\ tmFetches = 1

(* ---- C12 ---- *)
\* a step in which connect() calls getToken()
GetTokenCalled == PendingCount' = PendingCount + 1

\* the call is answered from the cache, with no request, exactly when the cached
\* token is valid beyond the refresh buffer; otherwise it waits for the refresh in
\* flight (its own or an earlier one) or fails with it
CachedExactlyWhenValid ==
  GetTokenCalled =>
    /\ (pendingConnects'["ready"] = pendingConnects["ready"] + 1) <=> (tmToken = "fresh")
    /\ tmToken = "fresh" => tmFetches' = tmFetches
    /\ tmToken # "fresh" =>
         \/ pendingConnects'["wait"] = pendingConnects["wait"] + 1 /\ tmFetches' = 1
         \/ pendingConnects'["failed"] = pendingConnects["failed"] + 1

\* a waiting call gets its token from the answer to a request
WaitersServedByRefresh ==
  pendingConnects'["ready"] > pendingConnects["ready"] /\ ~GetTokenCalled =>
    tmFetches' < tmFetches /\ tmToken' \in AnsweredAges

\* C12: getToken() returns the cached token without contacting the token endpoint
\* exactly when a token is cached and the time is before expiresAt minus the
\* refresh buffer; in every other case the token it returns comes from a refresh,
\* a new one or the one in flight, never from the stale cache.
C12_CacheUsedExactlyWhenValid ==
  [][CachedExactlyWhenValid /\ WaitersServedByRefresh]_vars

\* a call has found the cached token inside the refresh buffer and waits for the
\* refresh it started
C12_StaleTokenRefreshed ==
  /\ tmToken = "stale"
  /\ pendingConnects["wait"] = 1
  /\ tmFetches = 1

(* ---- C13 ---- *)
\* the connection controller from its first render, telling apart the steps in
\* which connect() creates its WebSocket or fails after a reconnect timer fired
InitToken ==
  /\ InitPlayback
  /\ InitDisconnected
  /\ observing = FALSE
  /\ throwingHandler = "none"
  /\ segmentPool = {}
  /\ trackedOps = {"connectOpensSocket", "reconnectFails"}
  /\ renderLagBound = 0
  /\ pendingBound = MaxPending

SpecToken == InitToken /\ [][NextConn]_vars

\* a step in which connect() creates a WebSocket
TransportOpened == \E s \in sockets' : s \notin sockets /\ s.st = "connecting"

\* the connect() that creates it has awaited getToken(), and the cached token it
\* was given is neither missing nor past expiresAt
OpenedWithValidToken ==
  TransportOpened =>
    /\ pendingConnects["ready"] > 0
    /\ pendingConnects'["ready"] = pendingConnects["ready"] - 1
    /\ tmToken \in {"fresh", "stale"}

\* C13: with token auth enabled, every transport open, the first connection and
\* each reconnect attempt, is preceded by a getToken() call made in that same
\* connect() attempt, and the token placed in the connection URL is not past its
\* expiresAt at the moment the transport is opened.
C13_TransportOpenedWithValidToken == [][OpenedWithValidToken]_vars

(* ---- C14 ---- *)
\* the recorder and sendMessage on a connection that may drop and reconnect
InitSend ==
  /\ InitPlayback
  /\ InitConnected
  /\ observing = FALSE
  /\ throwingHandler = "none"
  /\ segmentPool = {}
  /\ trackedOps = {"sendMessageClosed"}
  /\ renderLagBound = 0
  /\ pendingBound = MaxPending

\* sendMessage, startRecording on an open connection, stopRecording, the capture
\* callback, disconnect and the transports
NextSend ==
  \/ Render
  \/ SendMessage
  \/ StartRecordingConnected
  \/ InitDone
  \/ \E data \in Frames : Frame(data)
  \/ StopRecording
  \/ Disconnect
  \/ ConnectOpensSocket
  \/ WsOpen
  \/ WsFail
  \/ WsClose
  \/ ReconnectTimer

SpecSend == InitSend /\ [][NextSend]_vars

\* sendMessage on a transport that is not open sends nothing and reports
\* WS_NOT_CONNECTED
ClosedSendReportsError ==
  (SendMessage /\ ~WsRefOpen) => (outbound' = outbound /\ error' = "WS_NOT_CONNECTED")

\* an event goes on the transport only in a step that finds the transport open:
\* nothing is kept back and sent when the transport opens
NothingSentLater == outbound' # outbound => WsRefOpen

\* C14: sendMessage() called while the transport is not open puts nothing on the
\* transport, does not buffer the message for later delivery, and reports a
\* WS_NOT_CONNECTED error to the error observers.
C14_SendWhileClosedReportsError ==
  [][ClosedSendReportsError /\ NothingSentLater]_vars

\* sendMessage() has just been called in Disconnected
C14_SentWhileDisconnected ==
  /\ lastOp = "sendMessageClosed"
  /\ connectionState = "disconnected"
  /\ error = "WS_NOT_CONNECTED"

(* ---- C15 ---- *)
\* a step in which a connect() call returns: after it created its WebSocket, or
\* from its catch
ConnectCompletes == ConnectOpensSocket \/ ConnectFails

\* C15: connect() completes only once the transport has reported open (state
\* Connected) or the attempt has failed (state Error); it never completes while
\* the connection state is still Connecting.
C15_ConnectCompletesSettled ==
  [][ConnectCompletes => connectionState' \in {"connected", "error"}]_vars

(* ---- C16 ---- *)
\* C16: after disconnect() is called from any state, also while connect() awaits
\* its token, while the transport is connecting and while a reconnect timer is
\* pending, the connection state stays Disconnected, no transport is opened and no
\* reconnect is scheduled until connect() is called again.
C16_DisconnectIsFinal ==
  disconnectCalled =>
    /\ connectionState = "disconnected"
    /\ reconnectTimers = {}
    /\ \A s \in sockets : s.st \notin {"connecting", "open"}

(* ---- C17 ---- *)
\* the catch of connect() opens no transport, sets Error, reports the failure and
\* schedules nothing
TokenFailureStops ==
  ConnectFails =>
    /\ connectionState' = "error"
    /\ error' = "CONNECTION_FAILED"
    /\ sockets' = sockets
    /\ reconnectTimers' = reconnectTimers
    /\ PendingCount' = PendingCount - 1

\* C17: when the token fetch fails during connect(), no transport is opened, the
\* connection state becomes Error, the failure is delivered to the error
\* observers and no automatic retry is scheduled, also when the failing connect()
\* was a reconnect attempt.
C17_TokenFailureIsNotRetried == [][TokenFailureStops]_vars

\* the catch has just run after a reconnect timer had fired, and nothing is left
\* in flight
C17_ReconnectFailedAtToken ==
  /\ lastOp = "reconnectFails"
  /\ connectionState = "error"
  /\ InFlight = 0

(* ---- C18 ---- *)
\* the recorder on a connection that may drop and reconnect, telling apart
\* stopRecording and the frames that are dropped
InitCapture ==
  /\ InitPlayback
  /\ InitConnected
  /\ observing = FALSE
  /\ throwingHandler = "none"
  /\ segmentPool = {}
  /\ trackedOps = {"stopRecording", "frameDropped"}
  /\ renderLagBound = 0
  /\ pendingBound = MaxPending

\* startRecording() called by a component that offers it while recordingState is
\* idle
StartRecordingIdle == recordingState = "idle" /\ StartRecordingConnected

\* startRecording, stopRecording, the capture callback, inbound media, sendMessage,
\* disconnect and the transports
NextCapture ==
  \/ Render
  \/ StartRecordingIdle
  \/ InitDone
  \/ InitFailed
  \/ \E data \in Frames : Frame(data)
  \/ \E data \in Frames : InboundMedia(data)
  \/ StopRecording
  \/ SendMessage
  \/ Disconnect
  \/ ConnectOpensSocket
  \/ WsOpen
  \/ WsFail
  \/ WsClose
  \/ ReconnectTimer

SpecCapture == InitCapture /\ [][NextCapture]_vars

\* of the events sent since the last start event, a media event comes after a
\* settings event
MediaAfterSettings ==
  \A i \in 1..Len(outbound) :
    outbound[i] = "media" =>
      /\ outbound[1] = "start"
      /\ \E j \in 1..(i - 1) : outbound[j] = "settings"

\* a captured frame is sent once when the gate and the transport are open, and
\* dropped otherwise
FramesGated ==
  \A data \in Frames :
    Frame(data) =>
      outbound' = IF isListeningRef /\ WsRefOpen THEN Append(outbound, "media") ELSE outbound

\* C18: in a recording started by startRecording the outbound order is start, then
\* settings, then media: no media frame is sent before the settings message of
\* that recording, and a captured frame is sent only while the listening gate and
\* the transport are open; otherwise it is dropped, never queued, duplicated or
\* reordered.
C18_StartSettingsMedia == []MediaAfterSettings /\ [][FramesGated]_vars

(* ---- C19 ---- *)
\* of the events sent since the last start event, no media event comes after a
\* stop event
NoMediaAfterStop ==
  \A i, j \in 1..Len(outbound) :
    i < j => ~(outbound[i] = "stop" /\ outbound[j] = "media")

\* a stopRecording() that follows a stopRecording() changes nothing
SecondStopIsNoOp ==
  (lastOp = "stopRecording" /\ StopRecording) =>
    UNCHANGED <<recVars, connVars, playVars>>

\* C19: stopRecording() is safe to call repeatedly and closes the listening gate:
\* after it no captured frame is sent until the next startRecording, and a second
\* consecutive stopRecording() is a no-op that changes no state, sends nothing on
\* the transport and reports no error.
C19_StopRecordingIdempotent == []NoMediaAfterStop /\ [][SecondStopIsNoOp]_vars

(* ---- C20 ---- *)
\* C20: every captured audio frame updates the published amplitude
\* (currentAmplitude), whether the listening gate is open or closed.
C20_FrameUpdatesAmplitude ==
  [][\A data \in Frames : Frame(data) => currentAmplitude' = Amplitude(data)]_vars

(* ---- C21 ---- *)
\* the connection controller from its first render, with the connection handlers
\* registered along the way
InitDispatch ==
  /\ InitPlayback
  /\ InitDisconnected
  /\ observing = FALSE
  /\ throwingHandler = "none"
  /\ segmentPool = {}
  /\ trackedOps = {}
  /\ renderLagBound = 0
  /\ pendingBound = MaxPending

\* connect() called by a component that offers it while the connection is down
ConnectWhenDown == connectionState \in {"disconnected", "error"} /\ Connect

\* connect, the transports, the reconnect timers and the registration of
\* connection handlers
NextDispatch ==
  \/ ConnectWhenDown
  \/ FetchOk
  \/ ConnectOpensSocket
  \/ WsOpen
  \/ WsFail
  \/ WsClose
  \/ ReconnectTimer
  \/ OnConnectionChange
  \/ OnConnectionChangeThrowing
  \/ RemoveThrowingHandler

SpecDispatch == InitDispatch /\ [][NextDispatch]_vars

\* the recording handler is called with every state the controller sets
DispatchReachesAll ==
  (observing /\ connectionState' # connectionState) =>
     /\ Len(observed') > Len(observed)
     /\ observed'[Len(observed')] = connectionState'

\* ws.onopen runs to its end
OpenHandlerCompletes == WsOpen => reconnectAttemptsRef' = 0

\* C21: when an observer throws, every other registered observer of that event is
\* still invoked, in registration order, and the exception does not escape the
\* dispatch, so the surrounding handler still completes (for example the
\* attempt-counter reset after the Connected notification).
C21_ThrowingObserverIsIsolated ==
  [][DispatchReachesAll /\ OpenHandlerCompletes]_vars

(* ---- C22 ---- *)
\* the recorder on a connection that may drop and reconnect, telling apart the
\* inbound messages that cannot be parsed
InitFailures ==
  /\ InitPlayback
  /\ InitConnected
  /\ observing = FALSE
  /\ throwingHandler = "none"
  /\ segmentPool = {}
  /\ trackedOps = {"messageUnparsed"}
  /\ renderLagBound = 0
  /\ pendingBound = MaxPending

\* the recorder, the transports and the inbound messages that cannot be parsed
NextFailures == NextCapture \/ InboundUnparsed

SpecFailures == InitFailures /\ [][NextFailures]_vars

\* each failure handled in a step leaves its error with setError and the error
\* observers
FailureReported ==
  /\ InboundUnparsed => error' # "none"
  /\ (SendMessage /\ ~WsRefOpen) => error' = "WS_NOT_CONNECTED"
  /\ InitFailed => error' = "RECORDING_FAILED"
  /\ WsFail => error' = "WS_CONNECTION_ERROR"

\* C22: every failure the engine handles (token or connect failure, transport
\* error, send while not connected, recording failure, playback decode failure, an
\* inbound message that cannot be parsed or processed, a failed media-frame send)
\* is delivered to the error observers at least once.
C22_EveryFailureReachesObservers == [][FailureReported]_vars

(* ---- C23 ---- *)
\* playback on an open connection where React commits the render a handler asked
\* for before the next handler runs
InitRendered ==
  /\ InitPlayback
  /\ InitConnected
  /\ observing = FALSE
  /\ throwingHandler = "none"
  /\ segmentPool = {SegA, SegB, SegC}
  /\ trackedOps = {}
  /\ renderLagBound = 1
  /\ pendingBound = MaxPending

SpecRendered == InitRendered /\ [][Next]_vars

\* a step of the tts_audio handler or of the timer it arms
TtsAudioStep == AutoPlayTimer \/ \E segment \in segmentPool : TtsAudio(segment)

\* no segment is started, the current one stays and the playback state is kept
NothingStarted ==
  /\ DecodingCount' = DecodingCount
  /\ currentSegment' = currentSegment
  /\ playbackState' = playbackState

\* C23: a tts_audio message enqueues its segment and triggers play() only if the
\* scheduler is idle: when it arrives while playback is paused or a fade-out is in
\* progress, no new segment is started, the paused or fading segment stays the
\* current one and the playback state does not change.
C23_TtsAudioStartsOnlyWhenIdle ==
  [][(TtsAudioStep /\ (playbackState = "paused" \/ isFadingOutRef)) => NothingStarted]_vars

(* ---- C24 ---- *)
\* pauseAudio acts only while the playing flag is set, and then pauses and keeps
\* the current segment and the queue
PauseKeepsSegment ==
  PauseAudio =>
     IF isPlayingRef /\ playbackAudioContextRef # "null"
     THEN /\ playbackState' = "paused"
          /\ currentSegment' = currentSegment
          /\ audioQueue' = audioQueue
     ELSE UNCHANGED <<audioQueue, currentSegment, playbackState, error, isPlayingRef,
                      isFadingOutRef, playbackAudioContextRef, decoding, resuming, pnsResuming,
                      sourceVars, timerVars, fadeVars, connVars, recVars>>

\* playAudio() on paused playback dequeues nothing and keeps the current segment
PlayResumesSame ==
  (PlayAudio /\ playbackState = "paused") =>
     /\ audioQueue' = audioQueue
     /\ currentSegment' = currentSegment
     /\ DecodingCount' = DecodingCount

\* C24: pauseAudio() has an effect only while a segment is playing, and then sets
\* the state to paused and keeps the current segment; a following playAudio()
\* resumes that same segment without dequeuing another one, so the queue and the
\* current segment are the same after pause followed by play as before.
C24_PauseThenPlayResumes == [][PauseKeepsSegment /\ PlayResumesSame]_vars

(* ---- C25 ---- *)
\* the scheduler with a segment that fails to decode, telling apart the stopAudio
\* calls
InitStop ==
  /\ InitPlayback
  /\ InitConnected
  /\ observing = FALSE
  /\ throwingHandler = "none"
  /\ segmentPool = {SegB, SegC}
  /\ trackedOps = {"stopAudio"}
  /\ renderLagBound = 0
  /\ pendingBound = MaxPending

SpecStop == InitStop /\ [][NextDecode]_vars

\* C25: stopAudio() called in any playback state (idle, playing, paused, fading,
\* error, or while the current segment is still being decoded) leaves the scheduler
\* idle with no current segment and with the playing and fading flags cleared, and
\* leaves the queue unchanged.
C25_StopAudioResetsToIdle ==
  [][StopAudio =>
       /\ playbackState' = "idle"
       /\ currentSegment' = NoSegment
       /\ ~isPlayingRef'
       /\ ~isFadingOutRef'
       /\ audioQueue' = audioQueue]_vars

\* stopAudio() has just returned from a call made while the current segment was
\* being decoded, a fade was pending and a segment was queued
C25_StoppedWhileDecoding ==
  /\ lastOp = "stopAudio"
  /\ DecodingCount > 0
  /\ fadeTimers # {}
  /\ audioQueue # <<>>

(* ---- C26 ---- *)
\* a step in which the catch of playNextSegment runs
DecodeFails == errorTimers' = errorTimers + 1

\* the catch reports the failure and drops the failed segment
FailedSegmentDiscarded ==
  DecodeFails =>
     /\ playbackState' = "error"
     /\ error' = "PLAYBACK_FAILED"
     /\ currentSegment' = NoSegment
     /\ audioQueue' = audioQueue

\* the delayed check of the catch starts the head of a non-empty queue
FailureChains ==
  (ErrorTimer /\ audioQueue # <<>> /\ ~isPlayingRef /\ ~isFadingOutRef) =>
     /\ DecodingCount' = DecodingCount + 1
     /\ currentSegment' = Head(audioQueue)
     /\ audioQueue' = Tail(audioQueue)

\* C26: when decoding or starting the current segment fails, the playback state
\* becomes error, the failure is reported to the error observers, the failed
\* segment is discarded (it is no longer current, is not put back in the queue and
\* is never retried), and if the queue is non-empty the next segment starts without
\* an external playAudio() call.
C26_DecodeFailureSkipsSegment == [][FailedSegmentDiscarded /\ FailureChains]_vars

(* ---- C27 ---- *)
\* startRecording() called by a component that offers it while no recording is
\* under way, on a connection that is not connected
StartRecordingDown == recordingState # "recording" /\ StartRecordingConnects

\* the same call once a render has shown the connection state connected
StartRecordingUp == recordingState # "recording" /\ StartRecordingConnected

\* startRecording, the renders, the token fetch, the transports, the reconnect
\* timers and the registration of a connection handler that throws
NextRecConnect ==
  \/ Render
  \/ OnConnectionChangeThrowing
  \/ StartRecordingDown
  \/ StartRecordingUp
  \/ RecConnectRejected
  \/ FetchOk
  \/ FetchFail
  \/ ConnectOpensSocket
  \/ ConnectFails
  \/ WsOpen
  \/ WsFail
  \/ WsClose
  \/ ReconnectTimer
  \/ RecOpenSeen
  \/ RecTimeout
  \/ InitDone
  \/ InitFailed

\* the connect() that a startRecording awaits returns
RecConnectReturns ==
  /\ ConnectOpensSocket \/ ConnectFails
  /\ recPending'["awaitConnect"] < recPending["awaitConnect"]

\* a connect() whose await has settled resumes, a rejection is delivered, and the
\* timers of startRecording fire; nothing makes the token endpoint answer
SpecRecConnect ==
  /\ InitConn
  /\ [][NextRecConnect]_vars
  /\ WF_vars(RecConnectReturns)
  /\ WF_vars(RecConnectRejected)
  /\ WF_vars(RecOpenSeen)
  /\ WF_vars(RecTimeout)

\* a startRecording call is waiting for the connection
WaitsForConnection ==
  recPending["awaitConnect"] + recPending["connectRejected"] + recPending["awaitOpen"] > 0

\* the timeout ends startRecording in error, with no start event sent and no
\* audio processor created
TimeoutEndsInError ==
  RecTimeout =>
     /\ recordingState' = "error"
     /\ error' = "RECORDING_FAILED"
     /\ outbound' = outbound
     /\ liveProcessors' = liveProcessors
     /\ recPending'["awaitInit"] = recPending["awaitInit"]

\* C27: startRecording() never waits forever for the connection: if the transport
\* is not open when the connection timeout elapses (also when connect() itself
\* failed), startRecording ends with recording state error and a reported error,
\* without having sent start and without having acquired the capture device.
C27_StartRecordingTimesOut ==
  /\ [][TimeoutEndsInError]_vars
  /\ WaitsForConnection ~> ~WaitsForConnection

(* ======================= C28: the token route without a key ============= *)

\* a hook that is not connected, in front of a deployment whose key is unset,
\* malformed or valid
InitTokenRoute ==
  /\ InitHook
  /\ InitTokenHook
  /\ InitConversation
  /\ InitDisconnected
  /\ apiKeyEnv \in ApiKeys
  /\ routeResponse = NoResponse
  /\ tmResponses = <<>>
  /\ observing = FALSE
  /\ throwingHandler = "none"
  /\ segmentPool = {}
  /\ trackedOps = {}
  /\ renderLagBound = 0
  /\ pendingBound = MaxPending

NextTokenRoute ==
  \/ Connect
  \/ TokenRouteAnswers
  \/ FetchAnswered
  \/ TokenRoute
  \/ TokenAges
  \/ TokenExpires
  \/ ConnectOpensSocket
  \/ ConnectFails
  \/ WsOpen
  \/ WsFail
  \/ WsClose
  \/ ReconnectTimer
  \/ Disconnect

SpecTokenRoute == InitTokenRoute /\ [][NextTokenRoute]_vars

\* the last response answered a POST that found the key unset
AnsweredWithoutKey ==
  /\ apiKeyEnv = "unset"
  /\ routeResponse.status # 0
  /\ routeResponse.status # 405

\* C28: when VOCALS_DEV_API_KEY is not configured the token route handler
\* answers a POST with a non-2xx status and the error code ENV_VAR_MISSING
C28_MissingKeyAnswersEnvVarMissing ==
  AnsweredWithoutKey =>
    /\ ~ResponseOk(routeResponse)
    /\ routeResponse.code = "ENV_VAR_MISSING"


(* ======================= C29: the conversation list ===================== *)

\* a conversation on an open connection, for the default maxMessages and for
\* each configured one the bound allows
InitMessages ==
  /\ InitHook
  /\ InitTokenHook
  /\ InitRoute
  /\ InitConnected
  /\ messages = <<>>
  /\ maxMessages \in (0..MaxConfigured) \cup {DefaultMaxMessages}
  /\ autoPlayAudio = TRUE
  /\ lastLlmId = "none"
  /\ observing = FALSE
  /\ throwingHandler = "none"
  /\ segmentPool = {}
  /\ trackedOps = {}
  /\ renderLagBound = 0
  /\ pendingBound = MaxPending

NextMessages ==
  \/ InboundTranscription
  \/ InboundStreaming
  \/ InboundLlmResponse
  \/ AddMessage
  \/ UpdateMessage
  \/ RemoveMessage
  \/ ClearConversation

SpecMessages == InitMessages /\ [][NextMessages]_vars

NoDuplicateIds ==
  \A i, j \in 1..Len(messages) : messages[i].id = messages[j].id => i = j

WithinMaxMessages == Len(messages) <= maxMessages

\* C29: the messages list of useVocalsConversation never holds two messages
\* with the same id and never more than maxMessages messages, whatever
\* maxMessages >= 0 is configured
C29_MessagesUniqueAndBounded == NoDuplicateIds /\ WithinMaxMessages


(* ======================= C30: nothing plays after clearQueue ============ *)

\* the scenario of C25, telling clearQueue apart instead of stopAudio
InitCleared ==
  /\ InitPlayback
  /\ InitConnected
  /\ observing = FALSE
  /\ throwingHandler = "none"
  /\ segmentPool = {SegB, SegC}
  /\ trackedOps = {"clearQueue"}
  /\ renderLagBound = 0
  /\ pendingBound = MaxPending

SpecCleared == InitCleared /\ [][NextDecode]_vars

\* the step starts no audio source
NoSourceStarts == LiveSources' <= LiveSources

\* the step makes no segment current
NoSegmentStarts == currentSegment' = NoSegment

\* C30: once clearQueue has completed, no segment received before it starts or
\* goes on playing: the handler that runs next, which can only find segments
\* received before the clearQueue, neither starts an audio source (a segment
\* still being decoded) nor makes a segment current (one still in the
\* audioQueueRef snapshot).
C30_NothingPlaysAfterClearQueue ==
  [][lastOp = "clearQueue" => NoSourceStarts /\ NoSegmentStarts]_vars


(* ======================= C31: the timer of a cancelled fade ============= *)

\* renders committed between handlers, two segments to play
InitFadeCancel ==
  /\ InitPlayback
  /\ InitConnected
  /\ observing = FALSE
  /\ throwingHandler = "none"
  /\ segmentPool = {SegA, SegC}
  /\ trackedOps = {}
  /\ renderLagBound = 1
  /\ pendingBound = MaxPending

\* playback without natural ends: a fade loses its flag to stopAudio, clearQueue,
\* the ended event these owe, or the timer of another fade
NextFadeCancel ==
  \/ Render
  \/ \E segment \in segmentPool : AddToQueue(segment)
  \/ PlayAudio
  \/ DecodeDone
  \/ StopAudio
  \/ ClearQueue
  \/ FadeOutAudio
  \/ FadeTimer
  \/ OnEndedStopped
  \/ EndedTimer

SpecFadeCancel == InitFadeCancel /\ [][NextFadeCancel]_vars

\* a fade timer fires in this step
FadeTimerStep == fadeTimers' # fadeTimers /\ fadeTimers' \subseteq fadeTimers

\* the only pending fade was cancelled and a segment started since is playing
CancelledFadeNewSegmentPlaying ==
  /\ Cardinality(fadeTimers) = 1
  /\ ~isFadingOutRef
  /\ isPlayingRef
  /\ currentAudioBufferSourceRef = "playing"
  /\ currentSegment # NoSegment
  /\ playbackState = "playing"

\* C31: the timer of a fade that stopAudio() or clearQueue() cancelled leaves a
\* segment started since alone: its source keeps playing and the playing flag,
\* the current segment and the playback state are not reset.
C31_CancelledFadeLeavesNewSegment ==
  [][CancelledFadeNewSegmentPlaying /\ FadeTimerStep =>
       UNCHANGED <<currentAudioBufferSourceRef, currentGainNodeRef, isPlayingRef,
                   currentSegment, playbackState>>]_vars


(* ======================= C32: state and current transport =============== *)

ConnectedHasOpenTransport == connectionState = "connected" => WsRefOpen

OpenTransportIsConnected == WsRefOpen => connectionState = "connected"

\* C32: the connection state is connected exactly while the current transport,
\* the one wsRef holds, is open; events of a transport that disconnect() or a
\* newer connect() has replaced do not change it.
C32_ConnectedIffCurrentTransportOpen ==
  ConnectedHasOpenTransport /\ OpenTransportIsConnected


(* ======================= C33: one transport per session ================= *)

\* the WebSockets that are connecting or open
LiveTransports == {t \in sockets : t.st \in {"connecting", "open"}}

\* C33: a session never has more than one transport that is connecting or
\* open, whatever the interleaving of connect(), disconnect() followed by
\* connect() (reconnect) and the reconnect timers.
C33_AtMostOneTransport == Cardinality(LiveTransports) <= 1


(* ======================= C34: getToken after a failed refresh =========== *)

\* the last refresh failed and the cache holds no token valid beyond the buffer
RefreshHasFailed == tmRefresh = "rejected" /\ tmToken # "fresh"

\* C34: a failed refresh leaves no in-flight marker: the getToken() call that
\* follows a failure sends a new request to the token endpoint.
C34_GetTokenRetriesAfterFailure ==
  [][RefreshHasFailed /\ GetTokenCalled => tmFetches' = tmFetches + 1]_vars


(* ======================= C35: clear() during a refresh ================== *)

\* useVocalsToken after its first render, telling clearToken apart
InitTokenClear ==
  /\ InitPlayback
  /\ InitDisconnected
  /\ observing = FALSE
  /\ throwingHandler = "none"
  /\ segmentPool = {}
  /\ trackedOps = {"clearToken"}
  /\ renderLagBound = 0
  /\ pendingBound = MaxPending

NextTokenClear ==
  \/ FetchToken
  \/ ClearToken
  \/ RefreshOk
  \/ RefreshFail
  \/ OrphanRefreshOk
  \/ OrphanRefreshFail
  \/ FetchTokenReturns
  \/ FetchTokenFails
  \/ TokenHookClock

SpecTokenClear == InitTokenClear /\ [][NextTokenClear]_vars

AtMostOneRefresh == tmFetches <= 1

\* a request made before the last clear() is answered in this step
OldRefreshAnswered == tmRefresh # "pending" /\ tmFetches' < tmFetches

SecondClear == lastOp = "clearToken" /\ lastOp' = "clearToken"

\* C35: clear() discards the cached state also while a refresh is in flight:
\* the answer to a request made before clear() is not stored in the cache, no
\* two requests are ever in flight, and a second clear() changes nothing.
C35_ClearDiscardsInFlightRefresh ==
  /\ []AtMostOneRefresh
  /\ [][(OldRefreshAnswered => tmToken' = tmToken)
        /\ (SecondClear => UNCHANGED <<tmToken, tmRefresh, tmFetches, tkState, tkCalls>>)]_vars


(* ======================= C36: playback state and playing flag =========== *)

\* a segment is playing and not paused
SegmentPlaying == isPlayingRef

PlayingIsPublished == SegmentPlaying => playbackState = "playing"

IdleMeansNotPlaying == playbackState = "idle" => ~SegmentPlaying

\* C36: the published playback state agrees with the playing flag: while a
\* segment is playing and not paused the state is playing, and while the state
\* is idle no segment is playing, also after the delayed check of a completion
\* handler has run.
C36_StateAgreesWithPlayingFlag == PlayingIsPublished /\ IdleMeansNotPlaying


(* ======================= C37: stopAudio does not chain ================== *)

\* playback in which sources end only because they were stopped, and nothing
\* but playAudio() asks for the next segment
NextStopped ==
  \/ Render
  \/ \E segment \in segmentPool : AddToQueue(segment)
  \/ PlayAudio
  \/ DecodeDone
  \/ StopAudio
  \/ OnEndedStopped
  \/ EndedTimer

SpecStopped == InitFadeCancel /\ [][NextStopped]_vars

\* the delayed check of an ended event runs in this step
EndedTimerStep == endedTimers' < endedTimers

\* C37: after stopAudio() no queued segment starts playing until playAudio() is
\* called or a tts_audio message arrives: the ended event of the stopped source
\* and its delayed check start nothing.
C37_StopDoesNotChain ==
  [][EndedTimerStep => UNCHANGED <<currentSegment, isPlayingRef, audioQueue>>]_vars


(* ======================= C38: a duplicate of the current segment ======== *)

\* C38: addToQueue rejects a segment whose identity key is that of the segment
\* being played: no queued segment carries the key of the current segment.
C38_CurrentKeyIsNotQueued ==
  currentSegment # NoSegment =>
    \A i \in 1..Len(audioQueue) : Key(audioQueue[i]) # Key(currentSegment)


(* ======================= C39: answers and user messages ================= *)

\* the conversation of C29, telling apart the handling of the two kinds of
\* answer
InitAnswers ==
  /\ InitHook
  /\ InitRoute
  /\ InitTokenHook
  /\ InitConnected
  /\ messages = <<>>
  /\ maxMessages \in (0..MaxConfigured) \cup {DefaultMaxMessages}
  /\ autoPlayAudio = TRUE
  /\ lastLlmId = "none"
  /\ observing = FALSE
  /\ throwingHandler = "none"
  /\ segmentPool = {}
  /\ trackedOps = {"llmResponse", "llmStreaming"}
  /\ renderLagBound = 0
  /\ pendingBound = MaxPending

SpecAnswers == InitAnswers /\ [][NextMessages]_vars

\* an llm_response or llm_response_streaming message is handled in this step,
\* and the list has room for one more message
AnswerHandledWithRoom ==
  /\ lastOp' \in {"llmResponse", "llmStreaming"}
  /\ Len(messages) < maxMessages

\* every user message of the list is in the list after the step
UserMessagesKept ==
  \A i \in 1..Len(messages) :
    messages[i].isUser => \E j \in 1..Len(messages') : messages'[j] = messages[i]

\* C39: handling an llm_response or llm_response_streaming message never
\* replaces or modifies a user message created from a transcription: the answer
\* to a segment_id is an entry of its own.
C39_AnswerKeepsUserMessage == [][AnswerHandledWithRoom => UserMessagesKept]_vars


(* ======================= C40: disconnect resets the session ============= *)

\* the connection controller from its first render, telling disconnect() apart
InitDisconnect ==
  /\ InitPlayback
  /\ InitDisconnected
  /\ observing = FALSE
  /\ throwingHandler = "none"
  /\ segmentPool = {}
  /\ trackedOps = {"disconnect"}
  /\ renderLagBound = 0
  /\ pendingBound = MaxPending

SpecDisconnect == InitDisconnect /\ [][NextConn]_vars

\* what disconnect() is to reset
sessionVars == <<connectionState, reconnectAttemptsRef, reconnectTimers,
                 reconnectTimeoutRef, wsRef, recordingState, isListeningRef,
                 playbackState, audioQueue, currentSegment, isPlayingRef,
                 isFadingOutRef>>

SessionInitial ==
  /\ connectionState = "disconnected"
  /\ reconnectAttemptsRef = 0
  /\ reconnectTimers = {}
  /\ reconnectTimeoutRef = 0
  /\ wsRef = 0
  /\ LiveTransports = {}
  /\ recordingState = "idle"
  /\ ~isListeningRef
  /\ playbackState = "idle"
  /\ audioQueue = <<>>
  /\ currentSegment = NoSegment
  /\ ~isPlayingRef
  /\ ~isFadingOutRef

\* C40: disconnect() called from any state leaves the session in its initial
\* state: disconnected, attempt counter 0, no reconnect timer pending, no
\* transport, recording idle with the gate closed, playback idle with an empty
\* queue, no current segment and the flags cleared; a second disconnect()
\* changes none of this.
C40_DisconnectResetsSession ==
  /\ [](lastOp = "disconnect" => SessionInitial)
  /\ [][lastOp = "disconnect" /\ lastOp' = "disconnect" =>
          UNCHANGED <<sessionVars, sockets>>]_vars

====
